---- MODULE Spec2Model ----
(***************************************************************************)
(* NeedMoMatchaBot (bot.py): the monitoring cycle with its per-user diff   *)
(* and error throttle, the per-user maintenance/resumed lifecycle state,   *)
(* and the control flow of main().                                         *)
(*                                                                         *)
(* Python values are modelled as follows.  A dict is a function whose      *)
(* DOMAIN is its key set; dict.get(k, d) is Get.  True/False/None are the  *)
(* strings "True"/"False"/"None".  A text is the sequence of its           *)
(* whitespace separated words, so that `"not found" in message.lower()`    *)
(* is containment of <<"not", "found">> in the lower-cased word sequence.  *)
(* A value stored in a snapshot file carries its JSON type in field t.     *)
(***************************************************************************)
EXTENDS Integers, Sequences, FiniteSets, TLC

\* ------------------------------------------------------------ bounds
\* Wall-clock time advances only while the loop sleeps, in steps of half a
\* day or of a day and a second, up to MaxHalfDays half days after the start.
MaxHalfDays == 3
\* The loop's handler catches at most MaxFaults exceptions.
MaxFaults == 2

\* ---------------------------------------------------------- constants
\* the throttle window of monitor_products
DaySeconds == 86400
HalfDay == DaySeconds \div 2
\* the sleep of the loop's exception handler
CooldownSeconds == 30
\* datetime.now().timestamp() when the process starts: any epoch far from 0
StartTime == 12 * DaySeconds

\* config['available_products'] and the chats with a users/user_<id>.json
AvailableProducts == {"ikuyo_100g", "sayaka_40g"}
UnlistedProduct == "kan_30g"
Chats == {"u1", "u2"}

None == "None"
PyTrue == "True"
PyFalse == "False"

\* ------------------------------------------------------------- dicts
EmptyDict == [k \in {} |-> None]

Get(d, k, default) == IF k \in DOMAIN d THEN d[k] ELSE default

Put(d, k, v) == (k :> v) @@ d

\* ------------------------------------------------------------- texts
LowerMap ==
  [w \in {"Product", "Out", "In", "URL", "Timeout", "Website", "Add", "Bag",
          "Sold", "Back", "ADD", "TO", "BAG", "Not", "Found", "Page",
          "Unknown", "No", "HTTP", "Unexpected", "Access", "Server",
          "Connection", "Cannot", "Ippodo", "Tea", "Matcha",
          "Coming", "Soon", "Error"} |->
     CASE w = "Product" -> "product" [] w = "Out" -> "out" [] w = "In" -> "in"
       [] w = "URL" -> "url" [] w = "Timeout" -> "timeout"
       [] w = "Website" -> "website" [] w = "Add" -> "add" [] w = "Bag" -> "bag"
       [] w = "Sold" -> "sold" [] w = "Back" -> "back" [] w = "ADD" -> "add"
       [] w = "TO" -> "to" [] w = "BAG" -> "bag" [] w = "Not" -> "not"
       [] w = "Found" -> "found" [] w = "Page" -> "page"
       [] w = "Unknown" -> "unknown" [] w = "No" -> "no" [] w = "HTTP" -> "http"
       [] w = "Unexpected" -> "unexpected" [] w = "Access" -> "access"
       [] w = "Server" -> "server" [] w = "Connection" -> "connection"
       [] w = "Cannot" -> "cannot" [] w = "Ippodo" -> "ippodo"
       [] w = "Tea" -> "tea" [] w = "Matcha" -> "matcha"
       [] w = "Coming" -> "coming" [] w = "Soon" -> "soon"
       [] w = "Error" -> "error"]

Lower(text) ==
  [i \in 1..Len(text) |->
     IF text[i] \in DOMAIN LowerMap THEN LowerMap[text[i]] ELSE text[i]]

\* `needle in text` on word sequences
Contains(text, needle) ==
  \E i \in 0..(Len(text) - Len(needle)) :
    \A j \in 1..Len(needle) : text[i + j] = needle[j]

\* ------------------------------------------------------------ pages
\* What requests.get and BeautifulSoup see of a product page.
Page(exc, code, title, oos, oos_text, container, span, status_text) ==
  [exc |-> exc, status_code |-> code, title |-> title, oos |-> oos,
   oos_text |-> oos_text, container |-> container, span |-> span,
   status_text |-> status_text]

ProductTitle == <<"Ippodo", "Tea", "Matcha">>

PageAddToBag == Page("", 200, ProductTitle, FALSE, <<>>, TRUE, TRUE, <<"Add", "to", "Bag">>)
PageAddToBagCaps == Page("", 200, ProductTitle, FALSE, <<>>, TRUE, TRUE, <<"ADD", "TO", "BAG">>)
PageSoldOut == Page("", 200, ProductTitle, FALSE, <<>>, TRUE, TRUE, <<"Sold", "Out">>)
Page404 == Page("", 404, <<>>, FALSE, <<>>, FALSE, FALSE, <<>>)
PageTimeout == Page("Timeout", 0, <<>>, FALSE, <<>>, FALSE, FALSE, <<>>)

PageConnectionError == Page("ConnectionError", 0, <<>>, FALSE, <<>>, FALSE, FALSE, <<>>)
PageUnknownStatus == Page("", 200, ProductTitle, FALSE, <<>>, TRUE, TRUE, <<"Coming", "Soon">>)
PageRemovedStatus == Page("", 200, ProductTitle, FALSE, <<>>, TRUE, TRUE, <<"Product", "removed">>)
PageNoSpan == Page("", 200, ProductTitle, FALSE, <<>>, TRUE, FALSE, <<>>)
PageNoContainer == Page("", 200, ProductTitle, FALSE, <<>>, FALSE, FALSE, <<>>)

\* pages of every failure class, and one that gives a verdict
ProbePages ==
  {PageAddToBag, Page404, PageTimeout, PageConnectionError, PageUnknownStatus,
   PageRemovedStatus, PageNoSpan, PageNoContainer}

Pages == {PageAddToBag, PageAddToBagCaps, PageSoldOut, Page404, PageTimeout}

Result(is_in_stock, message) == [is_in_stock |-> is_in_stock, message |-> message]

CheckProductStock(page) ==
  IF page.exc = "ConnectionError"
    THEN Result(None, <<"Connection", "error", "-", "Cannot", "reach", "the", "website">>)
  ELSE IF page.exc = "Timeout"
    THEN Result(None, <<"Timeout", "error", "-", "Website", "took", "too", "long", "to", "respond">>)
  ELSE IF page.exc # ""
    THEN Result(None, <<"Request", "error", ":", page.exc>>)
  ELSE IF page.status_code = 404
    THEN Result(None, <<"Product", "page", "not", "found", "(", "404", ")", "-",
                        "Product", "may", "have", "been", "removed", "or", "URL", "changed">>)
  ELSE IF page.status_code = 403
    THEN Result(None, <<"Access", "denied", "(", "403", ")", "-",
                        "Website", "may", "be", "blocking", "requests">>)
  ELSE IF page.status_code = 500
    THEN Result(None, <<"Server", "error", "(", "500", ")", "-",
                        "Website", "may", "be", "experiencing", "issues">>)
  ELSE IF page.status_code # 200
    THEN Result(None, <<"HTTP", ToString(page.status_code), "-",
                        "Unexpected", "response", "from", "website">>)
  ELSE IF \/ Contains(Lower(page.title), <<"404">>)
          \/ Contains(Lower(page.title), <<"not", "found">>)
          \/ Contains(Lower(page.title), <<"error">>)
    THEN Result(None, <<"Product", "page", "not", "found", "-",
                        "Page", "title", "indicates", "error">>)
  ELSE IF page.oos
    THEN IF page.oos_text # <<>>
           THEN Result(PyFalse, <<"Out", "of", "stock", ":">> \o page.oos_text)
           ELSE Result(PyFalse, <<"Out", "of", "stock", "(", "oos-container", "found", ")">>)
  ELSE IF page.container
    THEN IF page.span
           THEN IF Contains(Lower(page.status_text), <<"sold", "out">>)
                  THEN Result(PyFalse, <<"Out", "of", "stock", "(">> \o page.status_text \o <<")">>)
                ELSE IF Contains(Lower(page.status_text), <<"add", "to", "bag">>)
                  THEN Result(PyTrue, <<"In", "stock", "(">> \o page.status_text \o <<")">>)
                ELSE Result(None, <<"Unknown", "status", "(">> \o page.status_text \o <<")">>)
           ELSE Result(None, <<"No", "stock", "status", "span", "found">>)
  ELSE Result(None, <<"No", "add", "button", "container", "found">>)

\* -------------------------------------------------- snapshot values
PyNone == [t |-> "none"]
DictVal(in_stock, message) == [t |-> "dict", in_stock |-> in_stock, message |-> message]
BoolVal(b) == [t |-> "bool", b |-> b]
NumVal(n) == [t |-> "num", n |-> n]

\* ErrKey with one throttle timestamp per user, shared by the user's products
ErrKeyShared(product_id) == "error_time"

ErrKey(product_id) == product_id \o "_error_time"

LegacyMessage == <<"Legacy", "status">>

\* --------------------------------------------------------- variables
VARIABLES
  users,                 \* self.users: an ordered dict, as the sequence of its items
  stockFile,             \* stock_status/user_<chat>.json, per chat
  dev_mode, dev_user_id, \* self.dev_mode, self.dev_user_id
  now,                   \* the wall clock
  pc,                    \* where monitor_products is
  all_products_to_check, \* the set built at the top of the cycle
  unprobed,              \* what the probing loop has not reached yet
  checked_products,      \* product_id -> (is_in_stock, message)
  userIdx,               \* position of `for chat_id, user_data in self.users.items()`
  chat_id, monitored_products, user_stock_status,
  prodIdx,               \* position of `for product_id in monitored_products`
  previous_status, current_time,
  sent,                  \* the call the last step made to send_notification / notify_product_error
  probe_calls,           \* check_product_stock calls of this cycle, per product
  lastErrorNotice,       \* when notify_product_error was last called, per chat and product
  applied,               \* the verdict last written to the record, per chat and product
  aliased,               \* monitored_products is the list object self.users holds for
                         \* the user in turn
  user_bot_states,       \* self.user_bot_states
  botStatesFile,         \* bot_states.json
  mpc,                   \* where main() is
  lop,                   \* the lifecycle event being delivered user by user
  lifeQueue,             \* the users the event has not reached yet
  lifeSent,              \* the notice or reply the last step handed to bot.send_message
  maintRun,              \* maintenance notices per user since the user was last resumed
  crashNotified,         \* notify_unexpected_shutdown was called in this run
  exitCause,             \* why main() ended
  lifeOutcomes,          \* how bot.send_message ended the last time it was handed the
                         \* notice, per user and notice
  prevExit,              \* why the run before this one ended
  notified,              \* the verdict last delivered to the chat for the product and
                         \* probed ever since, per chat and product
  cycleLists,            \* self.users as it was when the cycle in progress started
  faults                 \* the exceptions the loop's handler has caught so far

monitorVars ==
  <<users, stockFile, dev_mode, dev_user_id, now, pc, all_products_to_check,
    unprobed, checked_products, userIdx, chat_id, monitored_products,
    user_stock_status, prodIdx, previous_status, current_time, sent,
    probe_calls, lastErrorNotice, applied, aliased, notified, cycleLists, faults>>

\* the monitoring loop's history variables, and the alias flag that only the
\* start of a user's turn and the commands change
monitorHist == <<notified, cycleLists, faults, aliased>>

\* the monitoring loop's own state
monitorLocals ==
  <<stockFile, now, pc, all_products_to_check, unprobed, checked_products, userIdx,
    chat_id, monitored_products, user_stock_status, prodIdx, previous_status,
    current_time, sent, probe_calls, lastErrorNotice, applied, monitorHist>>

lifeVars ==
  <<user_bot_states, botStatesFile, mpc, lop, lifeQueue, lifeSent, maintRun,
    crashNotified, exitCause, prevExit, lifeOutcomes>>

\* the lifecycle variables a command leaves alone
lifeRest ==
  <<user_bot_states, botStatesFile, mpc, lop, lifeQueue, maintRun, crashNotified,
    exitCause, prevExit, lifeOutcomes>>

vars == <<monitorVars, lifeVars>>

\* ------------------------------------------------------ snapshot store
MissingFile == [exists |-> FALSE, data |-> EmptyDict]
JsonFile(data) == [exists |-> TRUE, data |-> data]
\* a file json.load cannot parse
CorruptFile == [exists |-> TRUE, data |-> EmptyDict, corrupt |-> TRUE]

Unparsable(chat) == stockFile[chat] = CorruptFile

\* GetUserStockStatus returning the entries as they are stored
GetUserStockStatusRaw(chat) ==
  IF stockFile[chat].exists THEN stockFile[chat].data ELSE EmptyDict

GetUserStockStatus(chat) ==
  IF stockFile[chat].exists
    THEN LET data == stockFile[chat].data
         IN  [k \in DOMAIN data |->
                IF data[k].t = "bool"
                  THEN DictVal(data[k].b, LegacyMessage)
                  ELSE data[k]]
    ELSE EmptyDict

\* SaveUserStockStatus writing the snapshot without its stock records
SaveUserStockStatusThrottleOnly(chat, stock_status) ==
  [stockFile EXCEPT ![chat] =
     JsonFile([k \in {x \in DOMAIN stock_status : stock_status[x].t = "num"} |->
                 stock_status[k]])]

SaveUserStockStatus(chat, stock_status) ==
  [stockFile EXCEPT ![chat] = JsonFile(stock_status)]

\* --------------------------------------------------------- diff engine
StatusChanged(previous, is_in_stock) ==
  IF previous # PyNone
    THEN IF previous.t = "dict"
           THEN previous.in_stock # is_in_stock
           ELSE previous # BoolVal(is_in_stock)
    ELSE TRUE

\* MessageChanged with the detail text of a stored record never compared
MessageChangedFirstOnly(previous, message) == previous = PyNone

MessageChanged(previous, message) ==
  IF previous # PyNone
    THEN IF previous.t = "dict"
           THEN previous.message # message
           ELSE TRUE
    ELSE TRUE

\* NotificationWorthy with the first observation treated as no change
NotificationWorthyUnlessFirst(previous, is_in_stock, message) ==
  /\ previous # PyNone
  /\ (StatusChanged(previous, is_in_stock) \/ MessageChanged(previous, message))

\* line 738
NotificationWorthy(previous, is_in_stock, message) ==
  StatusChanged(previous, is_in_stock) \/ MessageChanged(previous, message)

\* IsPersistentError taking every failed probe for a persistent error
IsPersistentErrorAnyFailure(message) == TRUE

IsPersistentError(message) ==
  \/ Contains(Lower(message), <<"not", "found">>)
  \/ Contains(message, <<"404">>)
  \/ Contains(Lower(message), <<"removed">>)

\* ThrottleOpen with a window of an hour
ThrottleOpenHour(time, last_error_time) == time - last_error_time > 3600

ThrottleOpen(time, last_error_time) == time - last_error_time > DaySeconds

\* the dev-mode filter at the top of send_notification / notify_product_error
\* the dev-mode filter of lines 227, 266 and 419 letting every chat through
DevSkipsNever(chat) == dev_mode /\ chat = ""

DevSkips(chat) == dev_mode /\ chat # dev_user_id

\* ------------------------------------------------------ monitoring loop
Range(seq) == {seq[i] : i \in 1..Len(seq)}

NoSend == [kind |-> "none", chat_id |-> "", product_id |-> "", is_in_stock |-> None,
           message |-> <<>>, delivery |-> ""]

Send(kind, chat, product_id, is_in_stock, message) ==
  [kind |-> kind, chat_id |-> chat, product_id |-> product_id,
   is_in_stock |-> is_in_stock, message |-> message,
   delivery |-> IF DevSkips(chat) THEN "dev_skip" ELSE "awaited"]

ZeroCalls == [p \in AvailableProducts |-> 0]

\* product_id, is_in_stock and message of the inner loop's current iteration
CurProduct == monitored_products[prodIdx]
CurResult == checked_products[CurProduct]

\* lines 671-686: the set of every user's monitored products
CycleStart ==
  /\ pc = "cycle_start"
  /\ LET all == UNION {Range(users[i].monitored_products) : i \in 1..Len(users)}
     IN  /\ all_products_to_check' = all
         /\ unprobed' = all
         /\ pc' = IF all = {} THEN "sleep" ELSE "probing"
  /\ checked_products' = EmptyDict
  /\ probe_calls' = ZeroCalls
  /\ sent' = NoSend
  /\ UNCHANGED <<users, stockFile, dev_mode, dev_user_id, now, userIdx, chat_id,
                 monitored_products, user_stock_status, prodIdx, previous_status,
                 current_time, lastErrorNotice, applied>>
  /\ cycleLists' = users
  /\ UNCHANGED <<lifeVars, notified, faults, aliased>>

\* no verdict yet
NoVerdict == Result(None, <<>>)

\* notified after a probe of the product: a delivered verdict stays on record
\* only as long as every probe of the product repeats it
ProbedSince(product_id, result) ==
  [c \in Chats |->
     [notified[c] EXCEPT ![product_id] = IF @ = result THEN @ ELSE NoVerdict]]

\* ProbeProduct called once for each user that monitors the product
ProbeProductPerWatcher(product_id, page) ==
  /\ pc = "probing"
  /\ product_id \in unprobed
  /\ product_id \in AvailableProducts
  /\ checked_products' = Put(checked_products, product_id, CheckProductStock(page))
  /\ probe_calls' =
       [probe_calls EXCEPT ![product_id] =
          @ + Cardinality({i \in 1..Len(users) :
                             product_id \in Range(users[i].monitored_products)})]
  /\ unprobed' = unprobed \ {product_id}
  /\ pc' = IF unprobed' = {} THEN "users" ELSE "probing"
  /\ userIdx' = 1
  /\ sent' = NoSend
  /\ UNCHANGED <<users, stockFile, dev_mode, dev_user_id, now, all_products_to_check,
                 chat_id, monitored_products, user_stock_status, prodIdx,
                 previous_status, current_time, lastErrorNotice, applied>>
  /\ notified' = ProbedSince(product_id, CheckProductStock(page))
  /\ UNCHANGED <<lifeVars, cycleLists, faults, aliased>>

\* ProbeProduct with the users processed as soon as one product is probed
ProbeProductThenUsers(product_id, page) ==
  /\ pc = "probing"
  /\ product_id \in unprobed
  /\ product_id \in AvailableProducts
  /\ checked_products' = Put(checked_products, product_id, CheckProductStock(page))
  /\ probe_calls' = [probe_calls EXCEPT ![product_id] = @ + 1]
  /\ unprobed' = unprobed \ {product_id}
  /\ pc' = "users"
  /\ userIdx' = 1
  /\ sent' = NoSend
  /\ UNCHANGED <<users, stockFile, dev_mode, dev_user_id, now, all_products_to_check,
                 chat_id, monitored_products, user_stock_status, prodIdx,
                 previous_status, current_time, lastErrorNotice, applied>>
  /\ notified' = ProbedSince(product_id, CheckProductStock(page))
  /\ UNCHANGED <<lifeVars, cycleLists, faults, aliased>>

\* lines 689-697, one iteration: a product of the catalog is probed
ProbeProduct(product_id, page) ==
  /\ pc = "probing"
  /\ product_id \in unprobed
  /\ product_id \in AvailableProducts
  /\ checked_products' = Put(checked_products, product_id, CheckProductStock(page))
  /\ probe_calls' = [probe_calls EXCEPT ![product_id] = @ + 1]
  /\ unprobed' = unprobed \ {product_id}
  /\ pc' = IF unprobed' = {} THEN "users" ELSE "probing"
  /\ userIdx' = 1
  /\ sent' = NoSend
  /\ UNCHANGED <<users, stockFile, dev_mode, dev_user_id, now, all_products_to_check,
                 chat_id, monitored_products, user_stock_status, prodIdx,
                 previous_status, current_time, lastErrorNotice, applied>>
  /\ notified' = ProbedSince(product_id, CheckProductStock(page))
  /\ UNCHANGED <<lifeVars, cycleLists, faults, aliased>>

\* lines 689-690, one iteration: an id the catalog does not know is passed over
SkipUnlisted(product_id) ==
  /\ pc = "probing"
  /\ product_id \in unprobed
  /\ product_id \notin AvailableProducts
  /\ unprobed' = unprobed \ {product_id}
  /\ pc' = IF unprobed' = {} THEN "users" ELSE "probing"
  /\ userIdx' = 1
  /\ sent' = NoSend
  /\ UNCHANGED <<users, stockFile, dev_mode, dev_user_id, now, all_products_to_check,
                 checked_products, chat_id, monitored_products, user_stock_status,
                 prodIdx, previous_status, current_time, probe_calls,
                 lastErrorNotice, applied>>
  /\ UNCHANGED <<lifeVars, monitorHist>>

\* The iterator of line 700 remembers the size self.users had when the loop
\* began, which is its size at the top of the cycle (nothing is awaited in
\* between); each step of the iterator compares it with the size the dict has.
SizeChanged == Len(users) # Len(cycleLists)

\* lines 700-704: the next user's list and snapshot are loaded
BeginUser ==
  /\ pc = "users"
  /\ ~SizeChanged
  /\ userIdx <= Len(users)
  /\ ~Unparsable(users[userIdx].chat_id)
  /\ chat_id' = users[userIdx].chat_id
  /\ monitored_products' = users[userIdx].monitored_products
  /\ user_stock_status' = GetUserStockStatus(users[userIdx].chat_id)
  /\ prodIdx' = 1
  /\ pc' = "products"
  /\ sent' = NoSend
  /\ UNCHANGED <<users, stockFile, dev_mode, dev_user_id, now, all_products_to_check,
                 unprobed, checked_products, userIdx, previous_status, current_time,
                 probe_calls, lastErrorNotice, applied>>
  /\ aliased' = TRUE
  /\ UNCHANGED <<lifeVars, notified, cycleLists, faults>>

\* lines 707-708: the product was not probed in this cycle
SkipUnchecked ==
  /\ pc = "products"
  /\ prodIdx <= Len(monitored_products)
  /\ CurProduct \notin DOMAIN checked_products
  /\ prodIdx' = prodIdx + 1
  /\ sent' = NoSend
  /\ UNCHANGED <<users, stockFile, dev_mode, dev_user_id, now, pc,
                 all_products_to_check, unprobed, checked_products, userIdx, chat_id,
                 monitored_products, user_stock_status, previous_status, current_time,
                 probe_calls, lastErrorNotice, applied>>
  /\ UNCHANGED <<lifeVars, monitorHist>>

\* lines 754-757
UpdateRecord(stock_status, product_id, result) ==
  Put(stock_status, product_id, DictVal(result.is_in_stock, result.message))

\* ProcessValid with the record left as it is when dev mode skips the notification
ProcessValidDevKeepsRecord ==
  /\ pc = "products"
  /\ prodIdx <= Len(monitored_products)
  /\ CurProduct \in DOMAIN checked_products
  /\ CurResult.is_in_stock # None
  /\ LET previous == Get(user_stock_status, CurProduct, PyNone)
         notify == NotificationWorthy(previous, CurResult.is_in_stock, CurResult.message)
     IN  /\ previous_status' = previous
         /\ sent' = IF notify
                      THEN Send("stock", chat_id, CurProduct, CurResult.is_in_stock,
                                CurResult.message)
                      ELSE NoSend
         /\ IF notify /\ ~DevSkips(chat_id)
              THEN /\ pc' = "await_send"
                   /\ UNCHANGED <<user_stock_status, prodIdx, applied>>
              ELSE /\ pc' = "products"
                   /\ user_stock_status' =
                        IF notify
                          THEN user_stock_status
                          ELSE UpdateRecord(user_stock_status, CurProduct, CurResult)
                   /\ applied' = [applied EXCEPT ![chat_id][CurProduct] = CurResult]
                   /\ prodIdx' = prodIdx + 1
  /\ UNCHANGED <<users, stockFile, dev_mode, dev_user_id, now, all_products_to_check,
                 unprobed, checked_products, userIdx, chat_id, monitored_products,
                 current_time, probe_calls, lastErrorNotice>>
  /\ UNCHANGED <<lifeVars, monitorHist>>

\* lines 712-757 up to the await in send_notification: the diff of a valid verdict
ProcessValid ==
  /\ pc = "products"
  /\ prodIdx <= Len(monitored_products)
  /\ CurProduct \in DOMAIN checked_products
  /\ CurResult.is_in_stock # None
  /\ LET previous == Get(user_stock_status, CurProduct, PyNone)
         notify == NotificationWorthy(previous, CurResult.is_in_stock, CurResult.message)
     IN  /\ previous_status' = previous
         /\ sent' = IF notify
                      THEN Send("stock", chat_id, CurProduct, CurResult.is_in_stock,
                                CurResult.message)
                      ELSE NoSend
         /\ IF notify /\ ~DevSkips(chat_id)
              THEN /\ pc' = "await_send"
                   /\ UNCHANGED <<user_stock_status, prodIdx, applied>>
              ELSE /\ pc' = "products"
                   /\ user_stock_status' = UpdateRecord(user_stock_status, CurProduct, CurResult)
                   /\ applied' = [applied EXCEPT ![chat_id][CurProduct] = CurResult]
                   /\ prodIdx' = prodIdx + 1
  /\ UNCHANGED <<users, stockFile, dev_mode, dev_user_id, now, all_products_to_check,
                 unprobed, checked_products, userIdx, chat_id, monitored_products,
                 current_time, probe_calls, lastErrorNotice>>
  /\ UNCHANGED <<lifeVars, monitorHist>>

\* ResumeSend with the exception of bot.send_message leaving send_notification:
\* it reaches the handler of the loop and the cycle is abandoned
ResumeSendRaising(outcome) ==
  /\ pc = "await_send"
  /\ sent' = [sent EXCEPT !.delivery = outcome]
  /\ IF outcome = "failed"
       THEN /\ pc' = "cooldown"
            /\ UNCHANGED <<user_stock_status, applied, prodIdx>>
       ELSE /\ user_stock_status' = UpdateRecord(user_stock_status, CurProduct, CurResult)
            /\ applied' = [applied EXCEPT ![chat_id][CurProduct] = CurResult]
            /\ prodIdx' = prodIdx + 1
            /\ pc' = "products"
  /\ UNCHANGED <<users, stockFile, dev_mode, dev_user_id, now, all_products_to_check,
                 unprobed, checked_products, userIdx, chat_id, monitored_products,
                 previous_status, current_time, probe_calls, lastErrorNotice>>
  /\ notified' = IF outcome = "delivered"
                   THEN [notified EXCEPT ![chat_id][CurProduct] = CurResult]
                   ELSE notified
  /\ UNCHANGED <<lifeVars, cycleLists, faults, aliased>>

\* ResumeSend with the snapshot written after each product
ResumeSendSaving(outcome) ==
  /\ pc = "await_send"
  /\ sent' = [sent EXCEPT !.delivery = outcome]
  /\ user_stock_status' = UpdateRecord(user_stock_status, CurProduct, CurResult)
  /\ stockFile' = SaveUserStockStatus(chat_id, user_stock_status')
  /\ applied' = [applied EXCEPT ![chat_id][CurProduct] = CurResult]
  /\ prodIdx' = prodIdx + 1
  /\ pc' = "products"
  /\ UNCHANGED <<users, dev_mode, dev_user_id, now, all_products_to_check,
                 unprobed, checked_products, userIdx, chat_id, monitored_products,
                 previous_status, current_time, probe_calls, lastErrorNotice>>
  /\ notified' = IF outcome = "delivered"
                   THEN [notified EXCEPT ![chat_id][CurProduct] = CurResult]
                   ELSE notified
  /\ UNCHANGED <<lifeVars, cycleLists, faults, aliased>>

\* ResumeSend with the record left as it is when the delivery fails
ResumeSendKeepsRecordOnFailure(outcome) ==
  /\ pc = "await_send"
  /\ sent' = [sent EXCEPT !.delivery = outcome]
  /\ user_stock_status' =
       IF outcome = "failed"
         THEN user_stock_status
         ELSE UpdateRecord(user_stock_status, CurProduct, CurResult)
  /\ applied' = IF outcome = "failed"
                  THEN applied
                  ELSE [applied EXCEPT ![chat_id][CurProduct] = CurResult]
  /\ prodIdx' = prodIdx + 1
  /\ pc' = "products"
  /\ UNCHANGED <<users, stockFile, dev_mode, dev_user_id, now, all_products_to_check,
                 unprobed, checked_products, userIdx, chat_id, monitored_products,
                 previous_status, current_time, probe_calls, lastErrorNotice>>
  /\ notified' = IF outcome = "delivered"
                   THEN [notified EXCEPT ![chat_id][CurProduct] = CurResult]
                   ELSE notified
  /\ UNCHANGED <<lifeVars, cycleLists, faults, aliased>>

\* lines 253-261 and 754-757: bot.send_message returns or raises, the record is updated
ResumeSend(outcome) ==
  /\ pc = "await_send"
  /\ sent' = [sent EXCEPT !.delivery = outcome]
  /\ user_stock_status' = UpdateRecord(user_stock_status, CurProduct, CurResult)
  /\ applied' = [applied EXCEPT ![chat_id][CurProduct] = CurResult]
  /\ prodIdx' = prodIdx + 1
  /\ pc' = "products"
  /\ UNCHANGED <<users, stockFile, dev_mode, dev_user_id, now, all_products_to_check,
                 unprobed, checked_products, userIdx, chat_id, monitored_products,
                 previous_status, current_time, probe_calls, lastErrorNotice>>
  /\ notified' = IF outcome = "delivered"
                   THEN [notified EXCEPT ![chat_id][CurProduct] = CurResult]
                   ELSE notified
  /\ UNCHANGED <<lifeVars, cycleLists, faults, aliased>>

\* line 768
SetErrorTime(stock_status, product_id, time) ==
  Put(stock_status, ErrKey(product_id), NumVal(time))

\* ProcessError with the throttle timestamp set at every persistent error,
\* also when the notice is held back
ProcessErrorStampsSuppressed ==
  /\ pc = "products"
  /\ prodIdx <= Len(monitored_products)
  /\ CurProduct \in DOMAIN checked_products
  /\ CurResult.is_in_stock = None
  /\ LET last_error_time == Get(user_stock_status, ErrKey(CurProduct), NumVal(0)).n
         notify == /\ IsPersistentError(CurResult.message)
                   /\ ThrottleOpen(now, last_error_time)
     IN  /\ current_time' = IF IsPersistentError(CurResult.message) THEN now ELSE current_time
         /\ sent' = IF notify
                      THEN Send("error", chat_id, CurProduct, None, CurResult.message)
                      ELSE NoSend
         /\ lastErrorNotice' = IF notify
                                 THEN [lastErrorNotice EXCEPT ![chat_id][CurProduct] = now]
                                 ELSE lastErrorNotice
         /\ IF notify /\ ~DevSkips(chat_id)
              THEN /\ pc' = "await_error"
                   /\ UNCHANGED <<user_stock_status, prodIdx>>
              ELSE /\ pc' = "products"
                   /\ user_stock_status' =
                        IF IsPersistentError(CurResult.message)
                          THEN SetErrorTime(user_stock_status, CurProduct, now)
                          ELSE user_stock_status
                   /\ prodIdx' = prodIdx + 1
  /\ UNCHANGED <<users, stockFile, dev_mode, dev_user_id, now, all_products_to_check,
                 unprobed, checked_products, userIdx, chat_id, monitored_products,
                 previous_status, probe_calls, applied>>
  /\ UNCHANGED <<lifeVars, monitorHist>>

\* lines 758-768 up to the await in notify_product_error: a probe without a verdict
ProcessError ==
  /\ pc = "products"
  /\ prodIdx <= Len(monitored_products)
  /\ CurProduct \in DOMAIN checked_products
  /\ CurResult.is_in_stock = None
  /\ LET last_error_time == Get(user_stock_status, ErrKey(CurProduct), NumVal(0)).n
         notify == /\ IsPersistentError(CurResult.message)
                   /\ ThrottleOpen(now, last_error_time)
     IN  /\ current_time' = IF IsPersistentError(CurResult.message) THEN now ELSE current_time
         /\ sent' = IF notify
                      THEN Send("error", chat_id, CurProduct, None, CurResult.message)
                      ELSE NoSend
         /\ lastErrorNotice' = IF notify
                                 THEN [lastErrorNotice EXCEPT ![chat_id][CurProduct] = now]
                                 ELSE lastErrorNotice
         /\ IF notify /\ ~DevSkips(chat_id)
              THEN /\ pc' = "await_error"
                   /\ UNCHANGED <<user_stock_status, prodIdx>>
              ELSE /\ pc' = "products"
                   /\ user_stock_status' =
                        IF notify
                          THEN SetErrorTime(user_stock_status, CurProduct, now)
                          ELSE user_stock_status
                   /\ prodIdx' = prodIdx + 1
  /\ UNCHANGED <<users, stockFile, dev_mode, dev_user_id, now, all_products_to_check,
                 unprobed, checked_products, userIdx, chat_id, monitored_products,
                 previous_status, probe_calls, applied>>
  /\ UNCHANGED <<lifeVars, monitorHist>>

\* lines 434-442 and 768: bot.send_message returns or raises, the throttle is set
ResumeError(outcome) ==
  /\ pc = "await_error"
  /\ sent' = [sent EXCEPT !.delivery = outcome]
  /\ user_stock_status' = SetErrorTime(user_stock_status, CurProduct, current_time)
  /\ prodIdx' = prodIdx + 1
  /\ pc' = "products"
  /\ UNCHANGED <<users, stockFile, dev_mode, dev_user_id, now, all_products_to_check,
                 unprobed, checked_products, userIdx, chat_id, monitored_products,
                 previous_status, current_time, probe_calls, lastErrorNotice, applied>>
  /\ UNCHANGED <<lifeVars, monitorHist>>

\* lines 770-771: the user's snapshot is written
SaveUser ==
  /\ pc = "products"
  /\ prodIdx > Len(monitored_products)
  /\ stockFile' = SaveUserStockStatus(chat_id, user_stock_status)
  /\ userIdx' = userIdx + 1
  /\ pc' = "users"
  /\ sent' = NoSend
  /\ UNCHANGED <<users, dev_mode, dev_user_id, now, all_products_to_check, unprobed,
                 checked_products, chat_id, monitored_products, user_stock_status,
                 prodIdx, previous_status, current_time, probe_calls, lastErrorNotice,
                 applied>>
  /\ UNCHANGED <<lifeVars, monitorHist>>

\* lines 773-774: every user is done, the loop goes to sleep.  The locals of
\* the finished cycle are dead (each is assigned again before it is read) and
\* are cleared here.
EndCycle ==
  /\ pc = "users"
  /\ ~SizeChanged
  /\ userIdx > Len(users)
  /\ pc' = "sleep"
  /\ sent' = NoSend
  /\ all_products_to_check' = {}
  /\ checked_products' = EmptyDict
  /\ probe_calls' = ZeroCalls
  /\ userIdx' = 1
  /\ chat_id' = ""
  /\ monitored_products' = <<>>
  /\ user_stock_status' = EmptyDict
  /\ prodIdx' = 1
  /\ previous_status' = PyNone
  /\ current_time' = 0
  /\ UNCHANGED <<users, stockFile, dev_mode, dev_user_id, now, unprobed,
                 lastErrorNotice, applied>>
  /\ UNCHANGED <<lifeVars, monitorHist>>

\* lines 683 and 774: asyncio.sleep(check_interval) returns after `elapsed` seconds
Wake(elapsed) ==
  /\ pc = "sleep"
  /\ now + elapsed <= StartTime + MaxHalfDays * HalfDay
  /\ now' = now + elapsed
  /\ pc' = "cycle_start"
  /\ sent' = NoSend
  /\ UNCHANGED <<users, stockFile, dev_mode, dev_user_id, all_products_to_check,
                 unprobed, checked_products, userIdx, chat_id, monitored_products,
                 user_stock_status, prodIdx, previous_status, current_time,
                 probe_calls, lastErrorNotice, applied>>
  /\ UNCHANGED <<lifeVars, monitorHist>>

Elapsed == {HalfDay, DaySeconds + 1}

\* where chat is in self.users, 0 when it is not registered
UserIndex(chat) ==
  IF \E i \in 1..Len(users) : users[i].chat_id = chat
    THEN CHOOSE i \in 1..Len(users) : users[i].chat_id = chat
    ELSE 0

\* lines 263-277: send_message, which the commands answer through: nothing is
\* handed to bot.send_message in dev mode unless the chat is the dev user
Reply(chat) ==
  IF DevSkips(chat) THEN [kind |-> "none", chat_id |-> ""]
                    ELSE [kind |-> "reply", chat_id |-> chat]

\* /add without the test of lines 551-560 for a product that is monitored already
AddAgain(chat, product_id) ==
  /\ pc \in {"await_send", "await_error", "sleep"}
  /\ UserIndex(chat) # 0
  /\ product_id \in AvailableProducts
  /\ users' = [users EXCEPT ![UserIndex(chat)].monitored_products = Append(@, product_id)]
  /\ monitored_products' =
       IF pc \in {"await_send", "await_error"} /\ chat = chat_id /\ aliased
         THEN Append(monitored_products, product_id)
         ELSE monitored_products
  /\ UNCHANGED <<stockFile, dev_mode, dev_user_id, now, pc, all_products_to_check,
                 unprobed, checked_products, userIdx, chat_id, user_stock_status,
                 prodIdx, previous_status, current_time, sent, probe_calls,
                 lastErrorNotice, applied>>
  /\ lifeSent' = Reply(chat)
  /\ UNCHANGED <<lifeRest, monitorHist>>

\* lines 524-563: /add <product_id> from a registered user, handled by the
\* polling loop while the monitoring task is suspended in a dispatch or in its
\* sleep.  Line 562 appends to the list object self.users holds, which is the
\* object the monitoring loop iterates when the user is the one in progress
\* and no /remove or /default has replaced the list since the turn began.
Add(chat, product_id) ==
  /\ pc \in {"await_send", "await_error", "sleep"}
  /\ UserIndex(chat) # 0
  /\ product_id \in AvailableProducts
  /\ product_id \notin Range(users[UserIndex(chat)].monitored_products)
  /\ users' = [users EXCEPT ![UserIndex(chat)].monitored_products = Append(@, product_id)]
  /\ monitored_products' =
       IF pc \in {"await_send", "await_error"} /\ chat = chat_id /\ aliased
         THEN Append(monitored_products, product_id)
         ELSE monitored_products
  /\ UNCHANGED <<stockFile, dev_mode, dev_user_id, now, pc, all_products_to_check,
                 unprobed, checked_products, userIdx, chat_id, user_stock_status,
                 prodIdx, previous_status, current_time, sent, probe_calls,
                 lastErrorNotice, applied>>
  /\ lifeSent' = Reply(chat)
  /\ UNCHANGED <<lifeRest, monitorHist>>

\* add_user line 106
DefaultProducts == <<"ikuyo_100g">>

\* lines 451-453 with add_user and save_user: /start, handled by the polling
\* loop while the monitoring task is suspended in a dispatch or in its sleep.
\* A chat that is not registered becomes a new key of self.users; a chat that
\* is registered changes nothing.
Start(chat) ==
  /\ pc \in {"await_send", "await_error", "sleep"}
  /\ users' = IF UserIndex(chat) = 0
                THEN Append(users, [chat_id |-> chat, monitored_products |-> DefaultProducts])
                ELSE users
  /\ UNCHANGED <<stockFile, dev_mode, dev_user_id, now, pc, all_products_to_check,
                 unprobed, checked_products, userIdx, chat_id, monitored_products,
                 user_stock_status, prodIdx, previous_status, current_time, sent,
                 probe_calls, lastErrorNotice, applied>>
  /\ lifeSent' = Reply(chat)
  /\ UNCHANGED <<lifeRest, monitorHist>>

\* lines 572-618: /remove <product_id> from a registered user who monitors the
\* product.  Line 600 builds a new list, so the list the monitoring loop
\* iterates is not touched.
Remove(chat, product_id) ==
  /\ pc \in {"await_send", "await_error", "sleep"}
  /\ UserIndex(chat) # 0
  /\ product_id \in Range(users[UserIndex(chat)].monitored_products)
  /\ users' = [users EXCEPT ![UserIndex(chat)].monitored_products =
                                SelectSeq(@, LAMBDA p : p # product_id)]
  /\ UNCHANGED <<stockFile, dev_mode, dev_user_id, now, pc, all_products_to_check,
                 unprobed, checked_products, userIdx, chat_id, monitored_products,
                 user_stock_status, prodIdx, previous_status, current_time, sent,
                 probe_calls, lastErrorNotice, applied>>
  /\ aliased' = IF pc \in {"await_send", "await_error"} /\ chat = chat_id THEN FALSE ELSE aliased
  /\ lifeSent' = Reply(chat)
  /\ UNCHANGED <<lifeRest, notified, cycleLists, faults>>

\* lines 620-633: /default from a registered user
Default(chat) ==
  /\ pc \in {"await_send", "await_error", "sleep"}
  /\ UserIndex(chat) # 0
  /\ users' = [users EXCEPT ![UserIndex(chat)].monitored_products = DefaultProducts]
  /\ UNCHANGED <<stockFile, dev_mode, dev_user_id, now, pc, all_products_to_check,
                 unprobed, checked_products, userIdx, chat_id, monitored_products,
                 user_stock_status, prodIdx, previous_status, current_time, sent,
                 probe_calls, lastErrorNotice, applied>>
  /\ aliased' = IF pc \in {"await_send", "await_error"} /\ chat = chat_id THEN FALSE ELSE aliased
  /\ lifeSent' = Reply(chat)
  /\ UNCHANGED <<lifeRest, notified, cycleLists, faults>>

\* the commands that answer and change nothing: /list, /status and /help, a
\* command other than /start from a chat that is not registered, /add or
\* /remove without a product, /add of a product that is not in the catalog or
\* is monitored already, /remove of a product that is not monitored
Answer(chat) ==
  /\ pc \in {"await_send", "await_error", "sleep"}
  /\ lifeSent' = Reply(chat)
  /\ UNCHANGED <<monitorVars, lifeRest>>

\* /start arriving while the monitoring task is suspended in a dispatch
StartMidDispatch(chat) ==
  /\ pc \in {"await_send", "await_error"}
  /\ Start(chat)

\* lines 776-777: the handler of the loop has caught an exception; the cycle
\* is abandoned and its locals are dead
Caught ==
  /\ faults < MaxFaults
  /\ faults' = faults + 1
  /\ pc' = "cooldown"
  /\ sent' = NoSend
  /\ all_products_to_check' = {}
  /\ checked_products' = EmptyDict
  /\ probe_calls' = ZeroCalls
  /\ userIdx' = 1
  /\ chat_id' = ""
  /\ monitored_products' = <<>>
  /\ user_stock_status' = EmptyDict
  /\ prodIdx' = 1
  /\ previous_status' = PyNone
  /\ current_time' = 0
  /\ UNCHANGED <<users, dev_mode, dev_user_id, now, unprobed, lastErrorNotice, applied,
                 notified, cycleLists, aliased>>
  /\ UNCHANGED lifeVars

\* lines 702 and 67: json.load raises on the next user's snapshot
ReadFault ==
  /\ pc = "users"
  /\ userIdx <= Len(users)
  /\ Unparsable(users[userIdx].chat_id)
  /\ Caught
  /\ UNCHANGED stockFile

\* line 700: the iterator of self.users.items() finds the dict changed in size
\* and raises RuntimeError, at its next step whether or not users are left
IterFault ==
  /\ pc = "users"
  /\ SizeChanged
  /\ Caught
  /\ UNCHANGED stockFile

\* lines 771 and 82-83: open raises and the file is as it was, or json.dump
\* raises after open has truncated the file
WriteFault(damaged) ==
  /\ pc = "products"
  /\ prodIdx > Len(monitored_products)
  /\ Caught
  /\ stockFile' = IF damaged THEN [stockFile EXCEPT ![chat_id] = CorruptFile] ELSE stockFile

\* the handler going on to the next cycle at once
CooldownSkipped ==
  /\ pc = "cooldown"
  /\ pc' = "cycle_start"
  /\ sent' = NoSend
  /\ UNCHANGED <<users, stockFile, dev_mode, dev_user_id, now, all_products_to_check,
                 unprobed, checked_products, userIdx, chat_id, monitored_products,
                 user_stock_status, prodIdx, previous_status, current_time,
                 probe_calls, lastErrorNotice, applied>>
  /\ UNCHANGED <<lifeVars, monitorHist>>

\* line 779: asyncio.sleep(30) returns and the while loop starts a cycle
Cooldown ==
  /\ pc = "cooldown"
  /\ now + CooldownSeconds <= StartTime + MaxHalfDays * HalfDay
  /\ now' = now + CooldownSeconds
  /\ pc' = "cycle_start"
  /\ sent' = NoSend
  /\ UNCHANGED <<users, stockFile, dev_mode, dev_user_id, all_products_to_check,
                 unprobed, checked_products, userIdx, chat_id, monitored_products,
                 user_stock_status, prodIdx, previous_status, current_time,
                 probe_calls, lastErrorNotice, applied>>
  /\ UNCHANGED <<lifeVars, monitorHist>>

\* The process is killed at any point of the loop (a crash or a redeploy) and
\* started again: what the loop held in memory is gone, the files are as the
\* last write left them, and monitor_products begins a cycle.
Crash ==
  /\ pc # "off"
  /\ pc' = "cycle_start"
  /\ all_products_to_check' = {}
  /\ unprobed' = {}
  /\ checked_products' = EmptyDict
  /\ probe_calls' = ZeroCalls
  /\ userIdx' = 1
  /\ chat_id' = ""
  /\ monitored_products' = <<>>
  /\ user_stock_status' = EmptyDict
  /\ prodIdx' = 1
  /\ previous_status' = PyNone
  /\ current_time' = 0
  /\ sent' = NoSend
  /\ UNCHANGED <<users, stockFile, dev_mode, dev_user_id, now, lastErrorNotice,
                 applied>>
  /\ UNCHANGED <<lifeVars, monitorHist>>

\* main() line 860: monitoring_task.cancel() while the task is suspended in one
\* of its awaits.  asyncio.CancelledError is raised at the await; it derives
\* from BaseException, so the handlers of lines 260, 441 and 776 let it pass
\* and monitor_products ends there, with its locals as they were.
Cancel ==
  /\ pc \in {"await_send", "await_error", "sleep", "cooldown"}
  /\ pc' = "cancelled"
  /\ UNCHANGED <<users, stockFile, dev_mode, dev_user_id, now, all_products_to_check,
                 unprobed, checked_products, userIdx, chat_id, monitored_products,
                 user_stock_status, prodIdx, previous_status, current_time, sent,
                 probe_calls, lastErrorNotice, applied>>
  /\ UNCHANGED <<lifeVars, monitorHist>>

DeliveryOutcomes == {"delivered", "failed"}

\* ----------------------------------------------------- lifecycle state
MissingStates == [exists |-> FALSE, data |-> EmptyDict]
JsonStates(states) == [exists |-> TRUE, data |-> states]

\* load_bot_states starting every run from an empty mapping
LoadBotStatesFresh == EmptyDict

LoadBotStates == IF botStatesFile.exists THEN botStatesFile.data ELSE EmptyDict

\* what should_send_notification answers and does to self.user_bot_states;
\* save says whether it calls save_bot_states
Verdict(send, states, save) == [send |-> send, states |-> states, save |-> save]

\* should_send_notification answering True to every maintenance_start
ShouldSendNotificationAlways(notification_type, chat, states) ==
  IF notification_type = "maintenance_end"
    THEN IF Get(states, chat, "resumed") = "resumed"
           THEN Verdict(FALSE, states, FALSE)
           ELSE Verdict(TRUE, Put(states, chat, "resumed"), TRUE)
    ELSE IF notification_type \in {"maintenance_start", "dev_mode_enabled"}
           THEN Verdict(TRUE, Put(states, chat, "maintenance"), TRUE)
           ELSE Verdict(TRUE, states, FALSE)

\* should_send_notification answering True to every maintenance_end
ShouldSendNotificationResumeAlways(notification_type, chat, states) ==
  IF notification_type \in {"maintenance_start", "dev_mode_enabled"}
    THEN IF Get(states, chat, "resumed") = "maintenance"
           THEN Verdict(FALSE, states, FALSE)
           ELSE Verdict(TRUE, Put(states, chat, "maintenance"), TRUE)
    ELSE IF notification_type = "maintenance_end"
           THEN Verdict(TRUE, Put(states, chat, "resumed"), TRUE)
           ELSE Verdict(TRUE, states, FALSE)

\* should_send_notification taking a user without an entry to be in maintenance
ShouldSendNotificationDefaultMaintenance(notification_type, chat, states) ==
  IF notification_type \in {"maintenance_start", "dev_mode_enabled"}
    THEN IF Get(states, chat, "resumed") = "maintenance"
           THEN Verdict(FALSE, states, FALSE)
           ELSE Verdict(TRUE, Put(states, chat, "maintenance"), TRUE)
    ELSE IF notification_type = "maintenance_end"
           THEN IF Get(states, chat, "maintenance") = "resumed"
                  THEN Verdict(FALSE, states, FALSE)
                  ELSE Verdict(TRUE, Put(states, chat, "resumed"), TRUE)
           ELSE Verdict(TRUE, states, FALSE)

ShouldSendNotification(notification_type, chat, states) ==
  IF notification_type \in {"maintenance_start", "dev_mode_enabled"}
    THEN IF Get(states, chat, "resumed") = "maintenance"
           THEN Verdict(FALSE, states, FALSE)
           ELSE Verdict(TRUE, Put(states, chat, "maintenance"), TRUE)
    ELSE IF notification_type = "maintenance_end"
           THEN IF Get(states, chat, "resumed") = "resumed"
                  THEN Verdict(FALSE, states, FALSE)
                  ELSE Verdict(TRUE, Put(states, chat, "resumed"), TRUE)
           ELSE Verdict(TRUE, states, FALSE)

NoLifeSend == [kind |-> "none", chat_id |-> ""]
LifeSend(kind, chat) == [kind |-> kind, chat_id |-> chat]

NoticeKinds == {"maintenance", "resumed", "crash"}

\* no notice handed to bot.send_message yet
NoOutcomes == [c \in Chats |-> [kind \in NoticeKinds |-> "none"]]

\* the try/except around bot.send_message in the notify_* methods and in the
\* start-up loop: the call returns or raises, the exception is printed, and the
\* pass ends either way
SendMessageReturns ==
  \E outcome \in DeliveryOutcomes :
    lifeOutcomes' = IF lifeSent'.kind = "none"
                      THEN lifeOutcomes
                      ELSE [lifeOutcomes EXCEPT ![lifeSent'.chat_id][lifeSent'.kind] = outcome]

\* the message each event sends
NoticeKind(notification_type) ==
  CASE notification_type = "maintenance_start" -> "maintenance"
    [] notification_type = "dev_mode_enabled" -> "maintenance"
    [] notification_type = "maintenance_end" -> "resumed"
    [] notification_type = "unexpected_shutdown" -> "crash"

\* `for chat_id in self.users`, or the dev user alone in dev mode
Recipients ==
  IF dev_mode THEN <<dev_user_id>> ELSE [i \in 1..Len(users) |-> users[i].chat_id]

\* the orders a set can be listed in
Orders(set) ==
  {q \in [1..Cardinality(set) -> set] : \A i, j \in 1..Cardinality(set) : i # j => q[i] # q[j]}

\* where main() goes on when the notify_* call it awaits returns
AfterReturn ==
  CASE mpc = "startup" -> "polling"
    [] mpc = "crash_notify" -> "finally"
    [] mpc = "finally" -> "exited"
    [] OTHER -> mpc

\* One pass of the loop body of notify_maintenance_start, notify_maintenance_end,
\* notify_dev_mode_enabled or the start-up loop of main(): should_send_notification,
\* then bot.send_message when it says so.  save_bot_states may raise (write_ok
\* FALSE): self.user_bot_states is then already changed, nothing is sent, and
\* the exception leaves the loop; main() catches it only around the finally
\* block's call.
StateEventStep(write_ok) ==
  /\ lop \in {"maintenance_start", "dev_mode_enabled", "maintenance_end"}
  /\ lifeQueue # <<>>
  /\ LET chat == Head(lifeQueue)
         v == ShouldSendNotification(lop, chat, user_bot_states)
     IN  /\ user_bot_states' = v.states
         /\ IF v.save /\ ~write_ok
              THEN /\ UNCHANGED <<botStatesFile, maintRun>>
                   /\ lifeSent' = NoLifeSend
                   /\ lop' = "none"
                   /\ lifeQueue' = <<>>
                   /\ mpc' = IF mpc \in {"startup", "finally"} THEN "exited" ELSE mpc
                   /\ exitCause' = IF mpc = "startup" THEN "fatal" ELSE exitCause
              ELSE /\ botStatesFile' = IF v.save THEN JsonStates(v.states) ELSE botStatesFile
                   /\ lifeSent' = IF v.send THEN LifeSend(NoticeKind(lop), chat) ELSE NoLifeSend
                   /\ maintRun' =
                        IF v.send /\ chat \in DOMAIN maintRun
                          THEN [maintRun EXCEPT ![chat] =
                                  IF NoticeKind(lop) = "maintenance" THEN @ + 1 ELSE 0]
                          ELSE maintRun
                   /\ lifeQueue' = Tail(lifeQueue)
                   /\ UNCHANGED <<lop, mpc, exitCause>>
  /\ SendMessageReturns
  /\ UNCHANGED <<users, dev_mode, dev_user_id, monitorLocals, prevExit, crashNotified>>

\* the crash notice going through the maintenance gate
UnexpectedShutdownStepGated ==
  /\ lop = "unexpected_shutdown"
  /\ lifeQueue # <<>>
  /\ LET chat == Head(lifeQueue)
         v == ShouldSendNotification("maintenance_start", chat, user_bot_states)
     IN  /\ user_bot_states' = v.states
         /\ botStatesFile' = IF v.save THEN JsonStates(v.states) ELSE botStatesFile
         /\ lifeSent' = IF v.send THEN LifeSend("crash", chat) ELSE NoLifeSend
  /\ lifeQueue' = Tail(lifeQueue)
  /\ SendMessageReturns
  /\ UNCHANGED <<users, dev_mode, dev_user_id, monitorLocals, prevExit, mpc, lop, maintRun,
                 crashNotified, exitCause>>

\* one pass of the loop body of notify_unexpected_shutdown
UnexpectedShutdownStep ==
  /\ lop = "unexpected_shutdown"
  /\ lifeQueue # <<>>
  /\ lifeSent' = LifeSend("crash", Head(lifeQueue))
  /\ lifeQueue' = Tail(lifeQueue)
  /\ SendMessageReturns
  /\ UNCHANGED <<users, dev_mode, dev_user_id, monitorLocals, prevExit, user_bot_states,
                 botStatesFile, mpc, lop, maintRun, crashNotified, exitCause>>

\* the notify_* call returns; main() goes on: to the polling loop after the
\* start-up notices, to the finally block after the crash notices, to its end
\* after the finally block
MethodReturns ==
  /\ lop # "none"
  /\ lifeQueue = <<>>
  /\ mpc' = AfterReturn
  /\ lop' = IF mpc = "crash_notify" THEN "maintenance_start" ELSE "none"
  /\ lifeQueue' = IF mpc = "crash_notify" THEN Recipients ELSE <<>>
  /\ lifeSent' = NoLifeSend
  /\ lifeOutcomes' = lifeOutcomes
  /\ UNCHANGED <<users, dev_mode, dev_user_id, monitorLocals, prevExit, user_bot_states,
                 botStatesFile, maintRun, crashNotified, exitCause>>

\* ---- the notify_* methods called on a bot at rest
Call(notification_type, recipients) ==
  /\ mpc = "idle"
  /\ lop = "none"
  /\ lop' = notification_type
  /\ lifeQueue' = recipients
  /\ lifeSent' = NoLifeSend
  /\ lifeOutcomes' = lifeOutcomes
  /\ UNCHANGED <<users, dev_mode, dev_user_id, monitorLocals, prevExit, user_bot_states,
                 botStatesFile, mpc, maintRun, crashNotified, exitCause>>

CallNotifyMaintenanceStart == Call("maintenance_start", Recipients)

CallNotifyMaintenanceEnd == Call("maintenance_end", Recipients)

CallNotifyDevModeEnabled ==
  /\ dev_mode
  /\ dev_user_id # ""
  /\ Call("dev_mode_enabled", <<dev_user_id>>)

CallNotifyUnexpectedShutdown == Call("unexpected_shutdown", Recipients)

\* the process is stopped and started again, with config.yaml's development
\* switch as dev_mode.py left it: __init__ reads config.yaml and bot_states.json
Reload(dev) ==
  /\ mpc = "idle"
  /\ dev_mode' = dev
  /\ user_bot_states' = LoadBotStates
  /\ lop' = "none"
  /\ lifeQueue' = <<>>
  /\ lifeSent' = NoLifeSend
  /\ lifeOutcomes' = lifeOutcomes
  /\ UNCHANGED <<users, dev_user_id, monitorLocals, prevExit, botStatesFile, mpc, maintRun,
                 crashNotified, exitCause>>

\* ---- main()
\* line 790: NeedMoMatchaBot()
Construct(dev) ==
  /\ mpc \in {"construct", "exited"}
  /\ dev_mode' = dev
  /\ user_bot_states' = LoadBotStates
  /\ mpc' = "constructed"
  /\ lop' = "none"
  /\ lifeQueue' = <<>>
  /\ lifeSent' = NoLifeSend
  /\ lifeOutcomes' = lifeOutcomes
  /\ crashNotified' = FALSE
  /\ exitCause' = "none"
  /\ prevExit' = exitCause
  /\ UNCHANGED <<users, dev_user_id, monitorLocals, botStatesFile, maintRun>>

\* lines 795-806: the start-up notices begin; in production they go to the
\* users bot_states.json left in maintenance, in the order of its items
BeginStartup(order) ==
  /\ mpc = "constructed"
  /\ IF dev_mode
       THEN /\ lop' = IF dev_user_id # "" THEN "dev_mode_enabled" ELSE "none"
            /\ lifeQueue' = IF dev_user_id # "" THEN <<dev_user_id>> ELSE <<>>
            /\ order = <<>>
       ELSE /\ order \in Orders({c \in DOMAIN user_bot_states :
                                   user_bot_states[c] = "maintenance"})
            /\ lop' = IF order # <<>> THEN "maintenance_end" ELSE "none"
            /\ lifeQueue' = order
  /\ mpc' = IF lop' = "none" THEN "polling" ELSE "startup"
  /\ lifeSent' = NoLifeSend
  /\ lifeOutcomes' = lifeOutcomes
  /\ UNCHANGED <<users, dev_user_id, dev_mode, monitorLocals, prevExit, user_bot_states,
                 botStatesFile, maintRun, crashNotified, exitCause>>

\* lines 830-844: get_updates or a handler raises; the inner handler logs it,
\* sleeps five seconds and polls again
PollingError ==
  /\ mpc = "polling"
  /\ lifeSent' = LifeSend("polling_error_logged", "")
  /\ UNCHANGED <<users, dev_mode, dev_user_id, monitorLocals, prevExit, lifeOutcomes, user_bot_states,
                 botStatesFile, mpc, lop, lifeQueue, maintRun, crashNotified, exitCause>>

\* lines 836-841 and 851-855: CancelledError or KeyboardInterrupt ends the
\* polling loop and the finally block begins
Stop ==
  /\ mpc = "polling"
  /\ mpc' = "finally"
  /\ exitCause' = "stopped"
  /\ lop' = "maintenance_start"
  /\ lifeQueue' = Recipients
  /\ lifeSent' = NoLifeSend
  /\ lifeOutcomes' = lifeOutcomes
  /\ UNCHANGED <<users, dev_mode, dev_user_id, monitorLocals, prevExit, user_bot_states,
                 botStatesFile, maintRun, crashNotified>>

\* lines 842-850: an exception raised while the inner handler runs leaves the
\* polling loop; the outer handler calls notify_unexpected_shutdown
HandlerFault ==
  /\ mpc = "polling"
  /\ mpc' = "crash_notify"
  /\ exitCause' = "fatal"
  /\ crashNotified' = TRUE
  /\ lop' = "unexpected_shutdown"
  /\ lifeQueue' = Recipients
  /\ lifeSent' = NoLifeSend
  /\ lifeOutcomes' = lifeOutcomes
  /\ UNCHANGED <<users, dev_mode, dev_user_id, monitorLocals, prevExit, user_bot_states,
                 botStatesFile, maintRun>>

\* ------------------------------------------------------ initial states
User(chat, products) == [chat_id |-> chat, monitored_products |-> products]

\* users/ as load_users finds it
UserTables ==
  { <<User("u1", <<"ikuyo_100g", "sayaka_40g">>), User("u2", <<"ikuyo_100g">>)>>,
    <<User("u1", <<"ikuyo_100g">>), User("u2", <<"ikuyo_100g", UnlistedProduct>>)>>,
    <<User("u1", <<UnlistedProduct>>), User("u2", <<>>)>> }

\* stock_status/ before the first cycle: no file, or a file of the legacy format
LegacyFile == JsonFile(("ikuyo_100g" :> BoolVal(PyTrue)))

\* lastErrorNotice of a pair notify_product_error was never called for
NoNotice == 0 - 1

MonitorOffWith(files) ==
  /\ stockFile = files
  /\ now = StartTime
  /\ pc = "off"
  /\ all_products_to_check = {}
  /\ unprobed = {}
  /\ checked_products = EmptyDict
  /\ userIdx = 1
  /\ chat_id = ""
  /\ monitored_products = <<>>
  /\ user_stock_status = EmptyDict
  /\ prodIdx = 1
  /\ previous_status = PyNone
  /\ current_time = 0
  /\ sent = NoSend
  /\ probe_calls = ZeroCalls
  /\ lastErrorNotice = [c \in Chats |-> [p \in AvailableProducts |-> NoNotice]]
  /\ applied = [c \in Chats |-> [p \in AvailableProducts |-> Result(None, <<>>)]]
  /\ notified = [c \in Chats |-> [p \in AvailableProducts |-> NoVerdict]]
  /\ cycleLists = <<>>
  /\ faults = 0
  /\ aliased = TRUE

\* the monitoring task is not running and stock_status/ is empty
MonitorOff == MonitorOffWith([c \in Chats |-> MissingFile])

\* a first installation: no bot_states.json
LifeFresh(at) ==
  /\ user_bot_states = EmptyDict
  /\ botStatesFile = MissingStates
  /\ mpc = at
  /\ lop = "none"
  /\ lifeQueue = <<>>
  /\ lifeSent = NoLifeSend
  /\ lifeOutcomes = NoOutcomes
  /\ maintRun = [c \in Chats |-> 0]
  /\ crashNotified = FALSE
  /\ exitCause = "none"
  /\ prevExit = "none"

\* users/ for the lifecycle: both chats registered, or the dev user not
LifeUserTables ==
  { <<User("u1", <<"ikuyo_100g">>), User("u2", <<"ikuyo_100g">>)>>,
    <<User("u2", <<"ikuyo_100g">>)>> }

\* monitor_products is entered with users/ holding one of the tables and
\* main() being at `at`
MonitorInitAt(tables, at) ==
  /\ LifeFresh(at)
  /\ users \in tables
  /\ stockFile \in [Chats -> {MissingFile}] \cup {[c \in Chats |-> IF c = "u1" THEN LegacyFile ELSE MissingFile]}
  /\ dev_mode \in BOOLEAN
  /\ dev_user_id = "u1"
  /\ now = StartTime
  /\ pc = "cycle_start"
  /\ all_products_to_check = {}
  /\ unprobed = {}
  /\ checked_products = EmptyDict
  /\ userIdx = 1
  /\ chat_id = ""
  /\ monitored_products = <<>>
  /\ user_stock_status = EmptyDict
  /\ prodIdx = 1
  /\ previous_status = PyNone
  /\ current_time = 0
  /\ sent = NoSend
  /\ probe_calls = ZeroCalls
  /\ lastErrorNotice = [c \in Chats |-> [p \in AvailableProducts |-> NoNotice]]
  /\ applied = [c \in Chats |-> [p \in AvailableProducts |-> Result(None, <<>>)]]
  /\ notified = [c \in Chats |-> [p \in AvailableProducts |-> NoVerdict]]
  /\ cycleLists = users
  /\ faults = 0
  /\ aliased = TRUE

MonitorInitOn(tables) == MonitorInitAt(tables, "monitoring")

MonitorInit == MonitorInitOn(UserTables)

Init == MonitorInit

MonitorNext ==
  \/ CycleStart
  \/ \E product_id \in AvailableProducts, page \in Pages : ProbeProduct(product_id, page)
  \/ \E product_id \in {UnlistedProduct} : SkipUnlisted(product_id)
  \/ BeginUser
  \/ SkipUnchecked
  \/ ProcessValid
  \/ \E outcome \in DeliveryOutcomes : ResumeSend(outcome)
  \/ ProcessError
  \/ \E outcome \in DeliveryOutcomes : ResumeError(outcome)
  \/ SaveUser
  \/ EndCycle
  \/ \E elapsed \in Elapsed : Wake(elapsed)

Next == MonitorNext

\* the monitoring loop of a running bot
Spec == Init /\ [][Next]_vars

\* the monitoring loop of a bot that may be killed and started again
CrashNext ==
  \/ MonitorNext
  \/ Crash

\* one installation: two users watching the same product, production mode
CrashInit ==
  /\ MonitorInit
  /\ users = <<User("u1", <<"ikuyo_100g">>), User("u2", <<"ikuyo_100g", UnlistedProduct>>)>>
  /\ ~dev_mode

SpecCrash == CrashInit /\ [][CrashNext]_vars

\* the monitoring loop meeting every class of probe failure
ProbeInit == CrashInit

ProbeNext ==
  \/ CycleStart
  \/ \E product_id \in AvailableProducts, page \in ProbePages : ProbeProduct(product_id, page)
  \/ \E product_id \in {UnlistedProduct} : SkipUnlisted(product_id)
  \/ BeginUser
  \/ SkipUnchecked
  \/ ProcessValid
  \/ \E outcome \in DeliveryOutcomes : ResumeSend(outcome)
  \/ ProcessError
  \/ \E outcome \in DeliveryOutcomes : ResumeError(outcome)
  \/ SaveUser
  \/ EndCycle
  \/ \E elapsed \in Elapsed : Wake(elapsed)

SpecProbe == ProbeInit /\ [][ProbeNext]_vars

\* the monitoring loop with /add commands arriving while it is suspended
CmdInit ==
  /\ MonitorInitOn({<<User("u1", <<"ikuyo_100g">>),
                      User("u2", <<"sayaka_40g", UnlistedProduct>>)>>})
  /\ ~dev_mode

\* a page with a verdict and one without, a day between the cycles
CmdPages == {PageAddToBag, Page404}

CmdNext ==
  \/ CycleStart
  \/ \E product_id \in AvailableProducts, page \in CmdPages : ProbeProduct(product_id, page)
  \/ \E product_id \in {UnlistedProduct} : SkipUnlisted(product_id)
  \/ BeginUser
  \/ SkipUnchecked
  \/ ProcessValid
  \/ \E outcome \in DeliveryOutcomes : ResumeSend(outcome)
  \/ ProcessError
  \/ \E outcome \in DeliveryOutcomes : ResumeError(outcome)
  \/ SaveUser
  \/ EndCycle
  \/ \E elapsed \in {DaySeconds + 1} : Wake(elapsed)
  \/ \E chat \in Chats, product_id \in AvailableProducts : Add(chat, product_id)

SpecCmd == CmdInit /\ [][CmdNext]_vars

\* the monitoring loop with snapshot reads and writes that may raise
FaultInit == CrashInit

FaultNext ==
  \/ MonitorNext
  \/ ReadFault
  \/ \E damaged \in BOOLEAN : WriteFault(damaged)
  \/ Cooldown

SpecFault == FaultInit /\ [][FaultNext]_vars

\* the monitoring loop of a bot whose main() may cancel the monitoring task
CancelInit == CrashInit

CancelNext ==
  \/ MonitorNext
  \/ Cancel

SpecCancel == CancelInit /\ [][CancelNext]_vars

\* the monitoring loop on every order of two users and of their product lists
Perms(set) == {<<a, b>> : a, b \in set} \ {<<a, a>> : a \in set}

OrderTables ==
  {<<User(c[1], l1), User(c[2], l2)>> :
     c \in Perms(Chats), l1 \in Perms(AvailableProducts), l2 \in Perms(AvailableProducts)}

OrderInit ==
  /\ MonitorInitOn(OrderTables)
  /\ ~dev_mode

OrderPages == {PageAddToBag, PageSoldOut, Page404}

OrderNext ==
  \/ CycleStart
  \/ \E product_id \in AvailableProducts, page \in OrderPages : ProbeProduct(product_id, page)
  \/ BeginUser
  \/ ProcessValid
  \/ \E outcome \in DeliveryOutcomes : ResumeSend(outcome)
  \/ ProcessError
  \/ \E outcome \in DeliveryOutcomes : ResumeError(outcome)
  \/ SaveUser
  \/ EndCycle
  \/ \E elapsed \in Elapsed : Wake(elapsed)

SpecOrder == OrderInit /\ [][OrderNext]_vars

\* the monitoring loop with the lifecycle broadcasts called while the
\* monitoring task runs, as the except and finally blocks of main() call them
DeliverInit ==
  /\ MonitorInitAt({<<User("u1", <<"ikuyo_100g">>), User("u2", <<"ikuyo_100g">>)>>}, "idle")
  /\ ~dev_mode

DeliverNext ==
  \/ CycleStart
  \/ \E product_id \in AvailableProducts, page \in CmdPages : ProbeProduct(product_id, page)
  \/ BeginUser
  \/ ProcessValid
  \/ \E outcome \in DeliveryOutcomes : ResumeSend(outcome)
  \/ ProcessError
  \/ \E outcome \in DeliveryOutcomes : ResumeError(outcome)
  \/ SaveUser
  \/ EndCycle
  \/ \E elapsed \in {DaySeconds + 1} : Wake(elapsed)
  \/ CallNotifyMaintenanceStart
  \/ CallNotifyMaintenanceEnd
  \/ CallNotifyUnexpectedShutdown
  \/ StateEventStep(TRUE)
  \/ UnexpectedShutdownStep
  \/ MethodReturns

SpecDeliver == DeliverInit /\ [][DeliverNext]_vars

\* get_user_stock_status called for a user, as line 702 calls it
ReadSnapshot(chat) ==
  /\ pc \in {"off", "read"}
  /\ ~Unparsable(chat)
  /\ chat_id' = chat
  /\ user_stock_status' = GetUserStockStatus(chat)
  /\ pc' = "read"
  /\ UNCHANGED <<users, stockFile, dev_mode, dev_user_id, now, all_products_to_check,
                 unprobed, checked_products, userIdx, monitored_products, prodIdx,
                 previous_status, current_time, sent, probe_calls, lastErrorNotice,
                 applied>>
  /\ UNCHANGED <<lifeVars, monitorHist>>

\* what a key of a snapshot file can hold: a legacy boolean, a record, a
\* record that was upgraded and saved, a throttle timestamp
StoredValues ==
  {BoolVal(PyTrue), BoolVal(PyFalse),
   DictVal(PyTrue, CheckProductStock(PageAddToBag).message),
   DictVal(PyFalse, LegacyMessage), NumVal(StartTime)}

SnapshotKeys == {"ikuyo_100g", "sayaka_40g", ErrKey("ikuyo_100g")}

\* stock_status/user_<id>.json: absent, or any mapping of some of the keys
SnapshotFiles ==
  {MissingFile} \cup
  {JsonFile(data) : data \in UNION {[keys -> StoredValues] : keys \in SUBSET SnapshotKeys}}

ReadInit ==
  /\ \E files \in [Chats -> SnapshotFiles] :
       /\ files["u2"] \in {MissingFile, LegacyFile}
       /\ MonitorOffWith(files)
  /\ LifeFresh("idle")
  /\ users \in LifeUserTables
  /\ dev_mode = FALSE
  /\ dev_user_id = "u1"

ReadNext == \E chat \in Chats : ReadSnapshot(chat)

SpecRead == ReadInit /\ [][ReadNext]_vars

\* a chat that has no users/user_<id>.json
NewChat == "u3"

\* the cycle of two users in which a /start of a new chat arrives during a
\* dispatch, up to the handler of line 776
StartInit == CrashInit

StartNext ==
  \/ MonitorNext
  \/ \E chat \in {NewChat} : StartMidDispatch(chat)
  \/ IterFault

SpecStart == StartInit /\ [][StartNext]_vars

\* the bot in dev mode with two users: the monitoring loop, the commands of
\* the two users and of a chat that is not registered, and the notify_* methods
DevInit ==
  /\ MonitorInitAt({<<User("u1", <<"ikuyo_100g">>), User("u2", <<"ikuyo_100g">>)>>}, "idle")
  /\ stockFile = [c \in Chats |-> MissingFile]
  /\ dev_mode

DevNext ==
  \/ CycleStart
  \/ \E product_id \in AvailableProducts, page \in CmdPages : ProbeProduct(product_id, page)
  \/ BeginUser
  \/ SkipUnchecked
  \/ ProcessValid
  \/ \E outcome \in DeliveryOutcomes : ResumeSend(outcome)
  \/ ProcessError
  \/ \E outcome \in DeliveryOutcomes : ResumeError(outcome)
  \/ SaveUser
  \/ EndCycle
  \/ \E chat \in Chats : Start(chat)
  \/ \E chat \in Chats, product_id \in {"sayaka_40g"} : Add(chat, product_id)
  \/ \E chat \in Chats, product_id \in {"sayaka_40g"} : Remove(chat, product_id)
  \/ \E chat \in Chats : Default(chat)
  \/ \E chat \in Chats \cup {NewChat} : Answer(chat)
  \/ CallNotifyMaintenanceStart
  \/ CallNotifyMaintenanceEnd
  \/ CallNotifyDevModeEnabled
  \/ CallNotifyUnexpectedShutdown
  \/ StateEventStep(TRUE)
  \/ UnexpectedShutdownStep
  \/ MethodReturns

SpecDev == DevInit /\ [][DevNext]_vars

\* a bot without users, whose monitoring loop sleeps between its cycles, and
\* the commands of three chats in any order
CommandInit == MonitorInitOn({<<>>})

\* what a chat may write after /add and /remove
Requested == AvailableProducts \cup {UnlistedProduct}

CommandNext ==
  \/ CycleStart
  \/ \E chat \in Chats \cup {NewChat} : Start(chat)
  \/ \E chat \in Chats \cup {NewChat}, product_id \in Requested : Add(chat, product_id)
  \/ \E chat \in Chats \cup {NewChat}, product_id \in Requested : Remove(chat, product_id)
  \/ \E chat \in Chats \cup {NewChat} : Default(chat)
  \/ \E chat \in Chats \cup {NewChat} : Answer(chat)

SpecCommand == CommandInit /\ [][CommandNext]_vars

\* the notify_* methods called in any order on a bot at rest, across restarts
LifeInit ==
  /\ MonitorOff
  /\ LifeFresh("idle")
  /\ users \in LifeUserTables
  /\ dev_mode \in BOOLEAN
  /\ dev_user_id = "u1"

LifeNext ==
  \/ CallNotifyMaintenanceStart
  \/ CallNotifyMaintenanceEnd
  \/ CallNotifyDevModeEnabled
  \/ CallNotifyUnexpectedShutdown
  \/ StateEventStep(TRUE)
  \/ UnexpectedShutdownStep
  \/ MethodReturns
  \/ \E dev \in BOOLEAN : Reload(dev)

SpecLife == LifeInit /\ [][LifeNext]_vars

\* main(), run after run
MainInit ==
  /\ MonitorOff
  /\ LifeFresh("construct")
  /\ users \in LifeUserTables
  /\ dev_mode = FALSE
  /\ dev_user_id = "u1"

MainNext ==
  \/ \E dev \in BOOLEAN : Construct(dev)
  \/ \E order \in UNION {Orders(set) : set \in SUBSET Chats} : BeginStartup(order)
  \/ \E write_ok \in BOOLEAN : StateEventStep(write_ok)
  \/ UnexpectedShutdownStep
  \/ MethodReturns
  \/ PollingError
  \/ Stop
  \/ HandlerFault

SpecMain == MainInit /\ [][MainNext]_vars

\* ================================================================ claims
\* The monitoring loop is at the diff of a (user, product) pair whose probe
\* gave a verdict / gave none.
AtValid ==
  /\ pc = "products"
  /\ prodIdx <= Len(monitored_products)
  /\ CurProduct \in DOMAIN checked_products
  /\ CurResult.is_in_stock # None

AtError ==
  /\ pc = "products"
  /\ prodIdx <= Len(monitored_products)
  /\ CurProduct \in DOMAIN checked_products
  /\ CurResult.is_in_stock = None

\* the record the store holds for the pair, PyNone when it holds none
StoredRecord(chat, product_id) ==
  IF stockFile[chat].exists THEN Get(stockFile[chat].data, product_id, PyNone) ELSE PyNone

\* the product whose iteration has just ended
DoneProduct == monitored_products[prodIdx - 1]

\* C1: when the store holds no record for a user/product pair and the probe
\* gave a verdict, the diff step calls send_notification for that user and
\* product with the probed verdict, whatever the availability is, and the
\* iteration ends with the probed (availability, detail) as the user's record,
\* which the save at the end of the user's products writes to the store.
C1_FirstObservationNotifies ==
  /\ [][(AtValid /\ StoredRecord(chat_id, CurProduct) = PyNone)
          => /\ sent'.kind = "stock"
             /\ sent'.chat_id = chat_id
             /\ sent'.product_id = CurProduct
             /\ sent'.is_in_stock = CurResult.is_in_stock
             /\ sent'.message = CurResult.message]_vars
  /\ [][(/\ pc \in {"products", "await_send"}
         /\ prodIdx' = prodIdx + 1
         /\ CurProduct \in DOMAIN checked_products
         /\ CurResult.is_in_stock # None
         /\ StoredRecord(chat_id, CurProduct) = PyNone)
          => user_stock_status'[CurProduct]
               = DictVal(CurResult.is_in_stock, CurResult.message)]_vars
  /\ [][(pc = "products" /\ pc' = "users")
          => \A product_id \in Range(monitored_products) :
               (/\ product_id \in DOMAIN checked_products
                /\ checked_products[product_id].is_in_stock # None)
               => StoredRecord(chat_id, product_id)'
                    = DictVal(checked_products[product_id].is_in_stock,
                              checked_products[product_id].message)]_vars

\* a first observation of an out-of-stock product was notified and recorded
C1_Witness ==
  /\ pc = "products"
  /\ prodIdx > 1
  /\ previous_status = PyNone
  /\ sent.kind = "stock"
  /\ sent.chat_id = chat_id
  /\ sent.product_id = DoneProduct
  /\ sent.is_in_stock = PyFalse
  /\ StoredRecord(chat_id, DoneProduct) = PyNone
  /\ user_stock_status[DoneProduct] = DictVal(PyFalse, sent.message)

\* C2: when the user's snapshot holds a record for the product and the probe
\* gave a verdict, the diff step calls send_notification exactly when the
\* probed availability differs from the record's or the probed detail text
\* differs from the record's.
C2_NotifyIffChanged ==
  [][(AtValid /\ CurProduct \in DOMAIN user_stock_status)
       => LET stored == user_stock_status[CurProduct]
          IN  (/\ sent'.kind = "stock"
               /\ sent'.chat_id = chat_id
               /\ sent'.product_id = CurProduct)
              <=> (\/ stored.in_stock # CurResult.is_in_stock
                   \/ stored.message # CurResult.message)]_vars

\* a changed detail with unchanged availability was notified
C2_Witness ==
  /\ pc = "await_send"
  /\ sent.kind = "stock"
  /\ previous_status # PyNone
  /\ previous_status = user_stock_status[CurProduct]
  /\ previous_status.in_stock = CurResult.is_in_stock
  /\ previous_status.message # CurResult.message
  /\ previous_status.message # LegacyMessage

\* C3: when the verdict the probe gave for a user/product pair is the one
\* that was last applied to the pair's record, the diff step calls no
\* notification and leaves the user's snapshot as it is.
C3_ReapplyIsNoOp ==
  [][(AtValid /\ applied[chat_id][CurProduct] = CurResult)
       => /\ sent' = NoSend
          /\ user_stock_status' = user_stock_status
          /\ pc' = "products"]_vars

\* the same verdict was applied a second time, in a later cycle, silently
C3_Witness ==
  /\ pc = "products"
  /\ prodIdx > 1
  /\ now > StartTime
  /\ DoneProduct \in DOMAIN checked_products
  /\ checked_products[DoneProduct].is_in_stock # None
  /\ applied[chat_id][DoneProduct] = checked_products[DoneProduct]
  /\ previous_status = DictVal(checked_products[DoneProduct].is_in_stock,
                               checked_products[DoneProduct].message)
  /\ StoredRecord(chat_id, DoneProduct) = previous_status
  /\ sent = NoSend

\* the catalog-known ids some user monitors
MonitoredIds ==
  {product_id \in AvailableProducts :
     \E i \in 1..Len(users) : product_id \in Range(users[i].monitored_products)}

\* C4: once the probing loop of a cycle has ended, each catalog-known id that
\* some user monitors has been probed exactly once in the cycle and no other
\* id has been probed, however many users monitor it; before that no id has
\* been probed more than once.
C4_UniqueProbe ==
  /\ \A product_id \in AvailableProducts : probe_calls[product_id] <= 1
  /\ pc \in {"users", "products", "await_send", "await_error"}
       => /\ \A product_id \in AvailableProducts :
               probe_calls[product_id] = IF product_id \in MonitoredIds THEN 1 ELSE 0
          /\ DOMAIN checked_products = MonitoredIds

\* two users monitor the same product and it was probed once
C4_Witness ==
  /\ pc = "users"
  /\ userIdx > Len(users)
  /\ \A i \in 1..Len(users) : "ikuyo_100g" \in Range(users[i].monitored_products)
  /\ Len(users) = 2
  /\ probe_calls["ikuyo_100g"] = 1

\* C5: notify_product_error is called for a user/product pair only if it was
\* never called for the pair before or the last call for the pair is at least
\* 24 hours back.
C5_ErrorNoticeThrottled ==
  [][(AtError /\ sent'.kind = "error")
       => \/ lastErrorNotice[chat_id][CurProduct] = NoNotice
          \/ now - lastErrorNotice[chat_id][CurProduct] >= DaySeconds]_vars

\* a second error notice for the pair, after a suppressed one
C5_Witness ==
  /\ pc = "products"
  /\ prodIdx > 1
  /\ sent.kind = "error"
  /\ sent.product_id = DoneProduct
  /\ lastErrorNotice[chat_id][DoneProduct] = now
  /\ StoredRecord(chat_id, ErrKey(DoneProduct)) # PyNone
  /\ StoredRecord(chat_id, ErrKey(DoneProduct)).n < now
  /\ user_stock_status[ErrKey(DoneProduct)] = NumVal(now)

\* C6 as claimed: a persistent error met 86400 seconds or more after the
\* stored throttle timestamp calls notify_product_error again.
C6_NoticeAtDayOrMore ==
  [][(/\ AtError
      /\ IsPersistentError(CurResult.message)
      /\ ErrKey(CurProduct) \in DOMAIN user_stock_status
      /\ now - user_stock_status[ErrKey(CurProduct)].n >= DaySeconds)
       => sent'.kind = "error"]_vars

\* one pass of a notify_* loop body is taken for the user at the head
EventStep(types) ==
  /\ lop \in types
  /\ lifeQueue # <<>>
  /\ lop' = lop
  /\ lifeQueue' = Tail(lifeQueue)

\* the user the last pass of the running notify_* loop was for
LastRecipient == Recipients[Len(Recipients) - Len(lifeQueue)]

\* C7: a maintenance_start or dev_mode_enabled event for a user whose state
\* is resumed or absent sends the maintenance notice and sets the state, in
\* memory and in bot_states.json, to maintenance; for a user already in
\* maintenance it sends nothing and changes neither.  After the event exactly
\* one maintenance notice has gone to the user since the user was last resumed.
C7_MaintenanceStartOnce ==
  [][EventStep({"maintenance_start", "dev_mode_enabled"})
       => LET chat == Head(lifeQueue)
          IN  /\ IF Get(user_bot_states, chat, "resumed") = "resumed"
                   THEN /\ lifeSent' = LifeSend("maintenance", chat)
                        /\ user_bot_states' = Put(user_bot_states, chat, "maintenance")
                        /\ botStatesFile' = JsonStates(user_bot_states')
                   ELSE /\ lifeSent' = NoLifeSend
                        /\ UNCHANGED <<user_bot_states, botStatesFile>>
              /\ maintRun'[chat] = 1]_vars

\* a maintenance_start found the user in maintenance, after a restart or not,
\* and sent nothing
C7_Witness ==
  /\ lop = "maintenance_start"
  /\ Len(lifeQueue) < Len(Recipients)
  /\ lifeSent = NoLifeSend
  /\ Get(user_bot_states, LastRecipient, "resumed") = "maintenance"
  /\ maintRun[LastRecipient] = 1

\* C8: a maintenance_end event for a user in maintenance sends the resume
\* notice and sets the state, in memory and in bot_states.json, to resumed;
\* for a user whose state is resumed or absent it sends nothing and changes
\* neither.
C8_MaintenanceEndGate ==
  [][EventStep({"maintenance_end"})
       => LET chat == Head(lifeQueue)
          IN  IF chat \in DOMAIN user_bot_states /\ user_bot_states[chat] = "maintenance"
                THEN /\ lifeSent' = LifeSend("resumed", chat)
                     /\ user_bot_states' = Put(user_bot_states, chat, "resumed")
                     /\ botStatesFile' = JsonStates(user_bot_states')
                ELSE /\ lifeSent' = NoLifeSend
                     /\ UNCHANGED <<user_bot_states, botStatesFile>>]_vars

\* a maintenance_end reached a user without a lifecycle entry and sent nothing
C8_Witness ==
  /\ lop = "maintenance_end"
  /\ Len(lifeQueue) < Len(Recipients)
  /\ lifeSent = NoLifeSend
  /\ LastRecipient \notin DOMAIN user_bot_states
  /\ LastRecipient \notin DOMAIN botStatesFile.data

\* C9: an unexpected_shutdown event sends the crash notice to its recipient
\* in whatever lifecycle state the recipient is, and changes no user's state,
\* neither in memory nor in bot_states.json.
C9_CrashNoticeAlways ==
  [][EventStep({"unexpected_shutdown"})
       => /\ lifeSent' = LifeSend("crash", Head(lifeQueue))
          /\ UNCHANGED <<user_bot_states, botStatesFile>>]_vars

\* the crash notice went to a user who is in maintenance
C9_Witness ==
  /\ lop = "unexpected_shutdown"
  /\ lifeSent.kind = "crash"
  /\ lifeSent.chat_id = LastRecipient
  /\ Get(user_bot_states, lifeSent.chat_id, "resumed") = "maintenance"
  /\ botStatesFile = JsonStates(user_bot_states)

\* C10 as claimed: when main() has ended because of a fault,
\* notify_unexpected_shutdown was called before.
C10_FatalExitNotifies ==
  (mpc = "exited" /\ exitCause = "fatal") => crashNotified

\* the users bot_states.json holds in maintenance
PersistedInMaintenance ==
  {c \in DOMAIN botStatesFile.data : botStatesFile.data[c] = "maintenance"}

\* C11 as claimed: from a normal stop of one run until the next run polls, no
\* maintenance notice and no resumed notice is sent to any user.
C11_RestartSilent ==
  [][(\/ exitCause' = "stopped"
      \/ (prevExit' = "stopped" /\ mpc = "startup"))
       => lifeSent'.kind \notin {"maintenance", "resumed"}]_vars

\* C12: in production mode the start-up notices go to exactly the users that
\* bot_states.json holds in maintenance; each of them is sent the resume
\* notice and set to resumed, in memory and in the file; nobody else is sent
\* one; and when the start-up phase ends no user is left in maintenance.
C12_StartupResumes ==
  /\ [][(mpc = "constructed" /\ mpc' # "constructed" /\ ~dev_mode)
          => /\ Range(lifeQueue') = PersistedInMaintenance
             /\ Len(lifeQueue') = Cardinality(PersistedInMaintenance)]_vars
  /\ [][(mpc = "startup" /\ lop = "maintenance_end" /\ mpc' = "startup" /\ lifeQueue' # lifeQueue)
          => /\ lifeSent' = LifeSend("resumed", Head(lifeQueue))
             /\ user_bot_states'[Head(lifeQueue)] = "resumed"
             /\ botStatesFile' = JsonStates(user_bot_states')
             /\ lifeQueue' = Tail(lifeQueue)]_vars
  /\ [][(mpc = "startup" /\ lifeSent'.kind = "resumed")
          => /\ lifeQueue # <<>>
             /\ lifeSent'.chat_id = Head(lifeQueue)
             /\ Head(lifeQueue) \in PersistedInMaintenance]_vars
  /\ [][(mpc = "startup" /\ mpc' = "polling" /\ ~dev_mode)
          => /\ PersistedInMaintenance = {}
             /\ \A c \in DOMAIN user_bot_states : user_bot_states[c] = "resumed"]_vars

\* both users were left in maintenance and both were sent the resume notice
\* at the next start
C12_Witness ==
  /\ mpc = "startup"
  /\ lop = "maintenance_end"
  /\ ~dev_mode
  /\ prevExit = "stopped"
  /\ lifeQueue = <<>>
  /\ lifeSent.kind = "resumed"
  /\ maintRun = [c \in Chats |-> 0]
  /\ \A c \in Chats : c \in DOMAIN user_bot_states /\ user_bot_states[c] = "resumed"
  /\ botStatesFile = JsonStates(user_bot_states)

\* C13 as claimed: a stock notification is never handed to the channel for a
\* user and a product with the verdict that was last delivered to that user
\* for that product when every probe of the product since then has returned
\* that same verdict, whether the process was killed and restarted in between
\* or not.
C13_NoDuplicateAfterCrash ==
  [][(AtValid /\ sent'.kind = "stock" /\ sent'.delivery = "awaited")
       => notified[chat_id][CurProduct] # CurResult]_vars

\* the handler of the loop catches an exception in this step
FaultStep == faults' # faults

\* C14: every exception raised by a snapshot read or write inside a cycle is
\* caught by the loop's handler, which sleeps 30 seconds and then starts a new
\* cycle; the loop is never left.
C14_LoopSurvivesFaults ==
  /\ [](pc \in {"cycle_start", "probing", "users", "products", "await_send",
                "await_error", "sleep", "cooldown"})
  /\ [][FaultStep => (pc' = "cooldown" /\ now' = now)]_vars
  /\ [][pc = "cooldown" => (pc' = "cycle_start" /\ now' = now + CooldownSeconds)]_vars
  /\ [][pc' = "cycle_start" => pc \in {"sleep", "cooldown"}]_vars

\* a second fault was caught, slept on for 30 seconds, and a cycle has begun
C14_Witness ==
  /\ pc = "probing"
  /\ faults = 2
  /\ now = StartTime + 2 * CooldownSeconds

\* C16 as claimed: when the snapshot of the user whose turn it is cannot be
\* parsed, the cycle is not abandoned: the loop goes on to the user's products
\* with what it could read, or to the next user.
C16_UnreadableSnapshotIsolated ==
  [][(pc = "users" /\ userIdx <= Len(users) /\ Unparsable(users[userIdx].chat_id))
       => /\ pc' \in {"users", "products"}
          /\ userIdx' \in {userIdx, userIdx + 1}]_vars

\* C17 as claimed: when the write of a user's snapshot raises, the cycle goes
\* on with the user that comes next.
C17_WriteFaultContinues ==
  [][(pc = "products" /\ prodIdx > Len(monitored_products) /\ FaultStep)
       => /\ pc' = "users"
          /\ userIdx' = userIdx + 1]_vars

\* C15 as claimed: while no catalog-known id is monitored by any user, no
\* probe is made and no user's snapshot file is written.
C15_EmptyUnionNoWrites ==
  [][MonitoredIds = {}
       => /\ probe_calls' = ZeroCalls
          /\ stockFile' = stockFile]_vars

\* the messages check_product_stock gives a timeout or a connection failure
IsTransportError(message) ==
  message \in {CheckProductStock(PageTimeout).message,
               CheckProductStock(PageConnectionError).message}

\* the messages check_product_stock gives a page whose status it cannot read
IsClassificationError(message) ==
  \/ /\ Len(message) >= 3
     /\ SubSeq(message, 1, 3) = <<"Unknown", "status", "(">>
  \/ message = <<"No", "stock", "status", "span", "found">>
  \/ message = <<"No", "add", "button", "container", "found">>

\* what get_user_stock_status reads for the key, PyNone when it reads none
ReadRecord(chat, key) == Get(GetUserStockStatus(chat), key, PyNone)

\* C18: when the probe of a product failed with a timeout or a connection
\* failure, the step that handles it for a subscriber calls neither
\* send_notification nor notify_product_error and leaves the subscriber's
\* snapshot as it is, and the save at the end of the subscriber's products
\* leaves the stored record and the stored throttle timestamp of the product
\* as they read before.
C18_TransportErrorSilent ==
  /\ [][(AtError /\ IsTransportError(CurResult.message))
          => /\ sent' = NoSend
             /\ user_stock_status' = user_stock_status
             /\ pc' = "products"]_vars
  /\ [][(pc = "products" /\ pc' = "users")
          => \A product_id \in Range(monitored_products) :
               (/\ product_id \in DOMAIN checked_products
                /\ IsTransportError(checked_products[product_id].message))
               => /\ ReadRecord(chat_id, product_id)' = ReadRecord(chat_id, product_id)
                  /\ ReadRecord(chat_id, ErrKey(product_id))'
                       = ReadRecord(chat_id, ErrKey(product_id))]_vars

\* a connection failure was handled for a subscriber that has a stock record
\* and a throttle timestamp for the product, and the snapshot was written
C18_Witness ==
  /\ pc = "users"
  /\ userIdx > 1
  /\ "ikuyo_100g" \in DOMAIN checked_products
  /\ checked_products["ikuyo_100g"] = CheckProductStock(PageConnectionError)
  /\ "ikuyo_100g" \in Range(monitored_products)
  /\ ReadRecord(chat_id, "ikuyo_100g") = DictVal(PyTrue, CheckProductStock(PageAddToBag).message)
  /\ ReadRecord(chat_id, ErrKey("ikuyo_100g")) = NumVal(StartTime)
  /\ stockFile[chat_id].data = user_stock_status
  /\ sent = NoSend

\* C19 as claimed: when the probe of a product reached the page but could not
\* classify its status, the step that handles it for a subscriber makes no
\* call and changes nothing in the subscriber's snapshot, whatever the status
\* text is.
C19_ClassificationErrorSilent ==
  [][(AtError /\ IsClassificationError(CurResult.message))
       => /\ sent' = NoSend
          /\ user_stock_status' = user_stock_status
          /\ pc' = "products"]_vars

\* C20 as claimed: every product the cycle in progress handles for a user is
\* one the user monitored when the cycle started.
C20_CycleUsesStartLists ==
  (AtValid \/ AtError) => CurProduct \in Range(cycleLists[userIdx].monitored_products)

\* C21 as claimed: when the loop is cancelled while it is suspended in a
\* dispatch for a user, the user's snapshot file holds, once the loop has
\* returned, the snapshot the loop held for that user.
C21_CancelSavesInFlightUser ==
  [][(pc \in {"await_send", "await_error"} /\ pc' = "cancelled")
       => stockFile'[chat_id] = JsonFile(user_stock_status')]_vars

\* the call the diff of the pair makes, from the probe result of the product
\* and what the user's snapshot file held for the pair when the cycle began
ExpectedSend(chat, product_id) ==
  LET result == checked_products[product_id]
      last_error_time == Get(GetUserStockStatus(chat), ErrKey(product_id), NumVal(0)).n
  IN  IF result.is_in_stock # None
        THEN IF NotificationWorthy(ReadRecord(chat, product_id), result.is_in_stock,
                                   result.message)
               THEN Send("stock", chat, product_id, result.is_in_stock, result.message)
               ELSE NoSend
        ELSE IF IsPersistentError(result.message) /\ ThrottleOpen(now, last_error_time)
               THEN Send("error", chat, product_id, None, result.message)
               ELSE NoSend

\* the snapshot a cycle leaves the user, from the set of the user's products,
\* the probe results and what the user's snapshot file held when the cycle began
ExpectedSnapshot(chat) ==
  LET start == GetUserStockStatus(chat)
      probed == Range(users[UserIndex(chat)].monitored_products) \cap DOMAIN checked_products
      valid == {p \in probed : checked_products[p].is_in_stock # None}
      noticed == {p \in probed : ExpectedSend(chat, p).kind = "error"}
  IN  [k \in DOMAIN start \cup valid \cup {ErrKey(p) : p \in noticed} |->
         IF k \in valid
           THEN DictVal(checked_products[k].is_in_stock, checked_products[k].message)
         ELSE IF k \in {ErrKey(p) : p \in noticed}
           THEN NumVal(now)
         ELSE start[k]]

\* C22: in whatever order self.users lists the users and each user's list its
\* products, the call the cycle makes for a user and a product is determined
\* by the product's probe result and the record the user's file held for the
\* pair when the cycle began, and the snapshot the cycle writes for a user is
\* determined by the set of the user's products, the probe results and the
\* file as it was when the cycle began; neither depends on the position of the
\* user or of the product in the cycle.
C22_OrderIndependent ==
  /\ [][(AtValid \/ AtError) => sent' = ExpectedSend(chat_id, CurProduct)]_vars
  /\ [][(pc = "products" /\ pc' = "users")
          => stockFile'[chat_id] = JsonFile(ExpectedSnapshot(chat_id))]_vars

\* a cycle has ended in which u2 came before u1 and u1's list was the reverse
\* of u2's, both products had failed persistently and both users hold a
\* throttle timestamp for each: the same snapshots in either position
C22_Witness ==
  /\ pc = "users"
  /\ userIdx > Len(users)
  /\ users[1].chat_id = "u2"
  /\ users[1].monitored_products = <<"ikuyo_100g", "sayaka_40g">>
  /\ users[2].monitored_products = <<"sayaka_40g", "ikuyo_100g">>
  /\ \A p \in AvailableProducts : checked_products[p].is_in_stock = None
  /\ stockFile["u1"].exists
  /\ stockFile["u1"].data = stockFile["u2"].data
  /\ \A p \in AvailableProducts : ErrKey(p) \in DOMAIN stockFile["u1"].data

\* the notice a pass of the running notify_* loop hands to bot.send_message
\* for the user at the head
ExpectedLifeSend ==
  IF lop = "unexpected_shutdown"
    THEN LifeSend("crash", Head(lifeQueue))
  ELSE IF ShouldSendNotification(lop, Head(lifeQueue), user_bot_states).send
    THEN LifeSend(NoticeKind(lop), Head(lifeQueue))
  ELSE NoLifeSend

\* a lifecycle notice has failed to be delivered
SomeLifeFailure == \E c \in Chats, kind \in NoticeKinds : lifeOutcomes[c][kind] = "failed"

\* the step hands a lifecycle notice to bot.send_message, which raises
LifeFailureStep ==
  /\ lifeQueue' # lifeQueue
  /\ lifeSent'.kind \in NoticeKinds
  /\ lifeOutcomes'[lifeSent'.chat_id][lifeSent'.kind] = "failed"

\* the step is one of the monitoring loop
LoopStep == pc' # pc \/ prodIdx' # prodIdx \/ userIdx' # userIdx \/ unprobed' # unprobed

\* C23: when bot.send_message raises for one recipient, the exception is
\* caught where it is raised.  A lifecycle broadcast goes on with the
\* recipient that comes next, who is handed the notice exactly as after a
\* success; a monitoring cycle goes on with the next product of the same user
\* and then with the users that come next, and makes for each pair the call
\* the pair's diff asks for.
C23_DeliveryFailureIsolated ==
  /\ [][LifeFailureStep
          => /\ lop' = lop
             /\ lifeQueue' = Tail(lifeQueue)
             /\ mpc' = mpc]_vars
  /\ [][(lop # "none" /\ lifeQueue # <<>> /\ SomeLifeFailure /\ lifeQueue' # lifeQueue)
          => lifeSent' = ExpectedLifeSend]_vars
  /\ [][(pc \in {"await_send", "await_error"} /\ sent'.delivery = "failed")
          => /\ pc' = "products"
             /\ prodIdx' = prodIdx + 1
             /\ UNCHANGED <<userIdx, chat_id, monitored_products, checked_products, users>>]_vars
  /\ [][((AtValid \/ AtError) /\ LoopStep)
          => sent' = ExpectedSend(chat_id, CurProduct)]_vars
  /\ [][(pc = "products" /\ prodIdx > Len(monitored_products) /\ LoopStep)
          => (pc' = "users" /\ userIdx' = userIdx + 1)]_vars

\* the crash notice failed for u1 and was then delivered to u2, while in the
\* cycle in progress the stock notification failed for u1 and the one for u2
\* is being sent
C23_Witness ==
  /\ lop = "unexpected_shutdown"
  /\ lifeQueue = <<>>
  /\ lifeOutcomes["u1"]["crash"] = "failed"
  /\ lifeOutcomes["u2"]["crash"] = "delivered"
  /\ lifeSent = LifeSend("crash", "u2")
  /\ pc = "await_send"
  /\ chat_id = "u2"
  /\ sent.kind = "stock"
  /\ applied["u1"]["ikuyo_100g"] = CurResult
  /\ notified["u1"]["ikuyo_100g"] = NoVerdict
  /\ stockFile["u1"] = JsonFile(("ikuyo_100g" :> DictVal(CurResult.is_in_stock, CurResult.message)))

\* C24: with dev mode on as with dev mode off, the snapshot a cycle writes for
\* a user, the dev user or not, holds for every probed product of the user the
\* stock record and the throttle timestamp that the probe results and the file
\* of the cycle's start determine; the diff makes the same call for the pair in
\* both modes, and dev mode only decides whether the call reaches
\* bot.send_message.
C24_DevModeSameSnapshots ==
  /\ [][(pc = "products" /\ pc' = "users")
          => /\ stockFile'[chat_id] = JsonFile(ExpectedSnapshot(chat_id))
             /\ \A c \in Chats \ {chat_id} : stockFile'[c] = stockFile[c]]_vars
  /\ [][(AtValid \/ AtError)
          => /\ sent'.kind = ExpectedSend(chat_id, CurProduct).kind
             /\ sent'.kind # "none"
                  => sent'.delivery = IF dev_mode /\ chat_id # dev_user_id
                                        THEN "dev_skip" ELSE "awaited"]_vars

\* dev mode is on and u2 is not the dev user: a stock notification to u2 was
\* skipped in an earlier cycle and its record is on file, and now an error
\* notice to u2 is skipped and the throttle timestamp is set
C24_Witness ==
  /\ dev_mode
  /\ chat_id = "u2"
  /\ chat_id # dev_user_id
  /\ pc = "products"
  /\ prodIdx > 1
  /\ sent.kind = "error"
  /\ sent.delivery = "dev_skip"
  /\ sent.product_id = DoneProduct
  /\ user_stock_status[ErrKey(DoneProduct)] = NumVal(now)
  /\ StoredRecord("u2", DoneProduct) = DictVal(PyTrue, CheckProductStock(PageAddToBag).message)
  /\ notified["u2"][DoneProduct] = NoVerdict

\* the lifecycle state should_send_notification reads for the user
LifecycleState(chat) == Get(user_bot_states, chat, "resumed")

\* C25 as claimed: when a maintenance_start broadcast has gone through its
\* recipients, every registered user is in maintenance, and when a
\* maintenance_end broadcast has, every registered user is resumed, with dev
\* mode on as with dev mode off.
C25_DevModeSameLifecycle ==
  (lop \in {"maintenance_start", "maintenance_end"} /\ lifeQueue = <<>>)
    => \A i \in 1..Len(users) :
         LifecycleState(users[i].chat_id) = NoticeKind(lop)

\* C26: whenever a call to send_notification or notify_product_error has been
\* made in a cycle, the probing loop of the cycle has ended: every catalog id
\* of the cycle's set has its result in checked_products, probed once, the call
\* carries the result checked_products holds for its product, and
\* checked_products does not change any more until the cycle ends.
C26_ProbesBeforeNotifications ==
  /\ [](sent.kind # "none"
          => /\ unprobed = {}
             /\ DOMAIN checked_products = all_products_to_check \cap AvailableProducts
             /\ \A p \in DOMAIN checked_products : probe_calls[p] = 1
             /\ sent.product_id \in DOMAIN checked_products
             /\ checked_products[sent.product_id] = Result(sent.is_in_stock, sent.message))
  /\ [][(pc \in {"users", "products", "await_send", "await_error"} /\ pc' # "sleep")
          => checked_products' = checked_products]_vars

\* the first notification of a cycle is being sent and both products of the
\* cycle's set have been probed
C26_Witness ==
  /\ pc = "await_send"
  /\ userIdx = 1
  /\ prodIdx = 1
  /\ sent.kind = "stock"
  /\ all_products_to_check = AvailableProducts
  /\ DOMAIN checked_products = AvailableProducts
  /\ checked_products[sent.product_id] # checked_products[monitored_products[2]]

\* C27: a snapshot file changes only in the step that ends a user's turn, when
\* every product of the user's list has been passed, and only the file of that
\* user; that step writes the user's whole in-memory snapshot, which holds the
\* cycle's result for every product of the user that gave a verdict, and moves
\* the cycle on to the next user, so that no user has a second turn in the
\* cycle; what is on file for a user is therefore what the last cycle's start
\* found or what a whole turn left, never a part of a turn.
C27_OneWritePerUserPerCycle ==
  /\ [][stockFile' # stockFile
          => /\ pc = "products"
             /\ prodIdx > Len(monitored_products)
             /\ chat_id = users[userIdx].chat_id
             /\ \A c \in Chats \ {chat_id} : stockFile'[c] = stockFile[c]]_vars
  /\ [][(pc = "products" /\ pc' = "users")
          => /\ prodIdx > Len(monitored_products)
             /\ stockFile'[chat_id] = JsonFile(user_stock_status)
             /\ stockFile'[chat_id] = JsonFile(ExpectedSnapshot(chat_id))
             /\ userIdx' = userIdx + 1]_vars
  /\ [][(userIdx' # userIdx /\ pc \in {"users", "products", "await_send", "await_error"})
          => \/ (pc = "products" /\ userIdx' = userIdx + 1)
             \/ (pc = "users" /\ userIdx > Len(users) /\ pc' = "sleep")]_vars

\* u1's turn has ended with one write that holds the results of both of u1's
\* products, one a verdict and one a persistent error
C27_Witness ==
  /\ pc = "users"
  /\ userIdx = 2
  /\ chat_id = "u1"
  /\ monitored_products = <<"ikuyo_100g", "sayaka_40g">>
  /\ checked_products["ikuyo_100g"].is_in_stock = PyFalse
  /\ checked_products["sayaka_40g"].is_in_stock = None
  /\ stockFile["u1"].data["ikuyo_100g"]
       = DictVal(PyFalse, checked_products["ikuyo_100g"].message)
  /\ ErrKey("sayaka_40g") \in DOMAIN stockFile["u1"].data
  /\ stockFile["u1"].data[ErrKey("sayaka_40g")] = NumVal(now)
  /\ ~stockFile["u2"].exists

\* the throttle timestamp the loop holds for the product of the user in turn
ThrottleStamp(product_id) == Get(user_stock_status, ErrKey(product_id), PyNone)

\* C28: a persistent error met while the throttle is closed calls nothing and
\* leaves the user's snapshot, the throttle timestamp included, as it is; the
\* timestamp of a product changes during a user's turn only in an iteration
\* that calls notify_product_error for the product, and becomes the time of
\* that call; so between cycles the timestamp on file is the time
\* notify_product_error was last called for the pair, and there is none on
\* file when it never was.
C28_SuppressedLeavesThrottle ==
  /\ [][(/\ AtError
         /\ IsPersistentError(CurResult.message)
         /\ ~ThrottleOpen(now, Get(user_stock_status, ErrKey(CurProduct), NumVal(0)).n))
          => /\ sent' = NoSend
             /\ user_stock_status' = user_stock_status
             /\ pc' = "products"]_vars
  /\ [][(pc \in {"products", "await_error", "await_send"} /\ pc' = "products")
          => \A p \in AvailableProducts :
               ThrottleStamp(p)' # ThrottleStamp(p)
                 => /\ sent'.kind = "error"
                    /\ sent'.product_id = p
                    /\ ThrottleStamp(p)' = NumVal(lastErrorNotice'[chat_id][p])]_vars
  /\ [](pc = "sleep"
          => \A c \in Chats, p \in AvailableProducts :
               StoredRecord(c, ErrKey(p))
                 = IF lastErrorNotice[c][p] = NoNotice
                     THEN PyNone
                     ELSE NumVal(lastErrorNotice[c][p]))

\* half a day after an error notice the same persistent error was met again
\* and held back: the timestamp is still the time of the notice
C28_Witness ==
  /\ pc = "products"
  /\ prodIdx > 1
  /\ DoneProduct \in DOMAIN checked_products
  /\ checked_products[DoneProduct].is_in_stock = None
  /\ IsPersistentError(checked_products[DoneProduct].message)
  /\ sent = NoSend
  /\ ThrottleStamp(DoneProduct) = NumVal(now - HalfDay)
  /\ lastErrorNotice[chat_id][DoneProduct] = now - HalfDay
  /\ StoredRecord(chat_id, ErrKey(DoneProduct)) = NumVal(now - HalfDay)

\* the events that move the lifecycle state
StateEvents == {"maintenance_start", "dev_mode_enabled", "maintenance_end"}

\* C29: when bot.send_message raises for a stock notification, the record of
\* the pair is set to the probed verdict all the same and the user's save
\* writes it, and a later cycle that probes the same verdict calls nothing for
\* the pair; when it raises for a lifecycle notice, the user's state is the new
\* one in memory and in bot_states.json, a state only ever changes in a step
\* that hands out the notice of the new state, and a later event that asks for
\* the state the user is in sends the user nothing.
C29_FailureKeepsTransition ==
  /\ [][(pc = "await_send" /\ sent'.delivery = "failed")
          => /\ user_stock_status' = UpdateRecord(user_stock_status, CurProduct, CurResult)
             /\ applied'[chat_id][CurProduct] = CurResult]_vars
  /\ [][(pc = "products" /\ pc' = "users")
          => stockFile'[chat_id] = JsonFile(user_stock_status)]_vars
  /\ [][(/\ AtValid
         /\ LoopStep
         /\ applied[chat_id][CurProduct] = CurResult
         /\ notified[chat_id][CurProduct] # CurResult)
          => /\ sent' = NoSend
             /\ user_stock_status' = user_stock_status]_vars
  /\ [][(LifeFailureStep /\ lop \in StateEvents)
          => /\ Get(user_bot_states', lifeSent'.chat_id, "resumed") = NoticeKind(lop)
             /\ botStatesFile' = JsonStates(user_bot_states')]_vars
  /\ [][\A c \in Chats :
          LifecycleState(c)' # LifecycleState(c)
            => lifeSent' = LifeSend(LifecycleState(c)', c)]_vars
  /\ [][(/\ lop \in StateEvents
         /\ lifeQueue # <<>>
         /\ lifeQueue' # lifeQueue
         /\ LifecycleState(Head(lifeQueue)) = NoticeKind(lop)
         /\ lifeOutcomes[Head(lifeQueue)][NoticeKind(lop)] = "failed")
          => /\ lifeSent' = NoLifeSend
             /\ UNCHANGED <<user_bot_states, botStatesFile>>]_vars

\* a second maintenance_start has reached a user whose maintenance notice had
\* failed and has sent nothing, the user being in maintenance on file; and in
\* the second cycle a verdict whose notification had failed in the first was
\* probed again and passed in silence, the record being on file
C29_Witness ==
  /\ lop = "maintenance_start"
  /\ Len(lifeQueue) < Len(Recipients)
  /\ lifeSent = NoLifeSend
  /\ lifeOutcomes[LastRecipient]["maintenance"] = "failed"
  /\ LifecycleState(LastRecipient) = "maintenance"
  /\ botStatesFile.data[LastRecipient] = "maintenance"
  /\ now > StartTime
  /\ pc = "products"
  /\ prodIdx > 1
  /\ sent = NoSend
  /\ checked_products[DoneProduct].is_in_stock # None
  /\ applied[chat_id][DoneProduct] = checked_products[DoneProduct]
  /\ notified[chat_id][DoneProduct] = NoVerdict
  /\ StoredRecord(chat_id, DoneProduct)
       = DictVal(checked_products[DoneProduct].is_in_stock,
                 checked_products[DoneProduct].message)

\* C30: what get_user_stock_status returns for a user has the keys of the
\* user's snapshot file; under a key the file holds a bare boolean b it holds
\* the record of availability b and detail 'Legacy status', under every other
\* key what the file holds; for a user without a file it is the empty mapping.
C30_LegacyUpgradeOnRead ==
  pc = "read"
    => IF stockFile[chat_id].exists
         THEN /\ DOMAIN user_stock_status = DOMAIN stockFile[chat_id].data
              /\ \A k \in DOMAIN user_stock_status :
                   LET stored == stockFile[chat_id].data[k]
                   IN  IF stored \in {BoolVal(PyTrue), BoolVal(PyFalse)}
                         THEN user_stock_status[k]
                                = [t |-> "dict", in_stock |-> stored.b,
                                   message |-> <<"Legacy", "status">>]
                         ELSE user_stock_status[k] = stored
         ELSE user_stock_status = EmptyDict

\* a file with a legacy false, a record and a throttle timestamp was read
C30_Witness ==
  /\ pc = "read"
  /\ chat_id = "u1"
  /\ stockFile["u1"].exists
  /\ DOMAIN stockFile["u1"].data = SnapshotKeys
  /\ stockFile["u1"].data["ikuyo_100g"] = BoolVal(PyFalse)
  /\ stockFile["u1"].data["sayaka_40g"].t = "dict"
  /\ stockFile["u1"].data[ErrKey("ikuyo_100g")].t = "num"
  /\ user_stock_status["ikuyo_100g"] = DictVal(PyFalse, LegacyMessage)
  /\ user_stock_status["sayaka_40g"] = stockFile["u1"].data["sayaka_40g"]
  /\ user_stock_status[ErrKey("ikuyo_100g")] = NumVal(StartTime)

\* the step hands a lifecycle notice of the kind to bot.send_message for the user
NoticeStep(kind, chat) ==
  /\ lifeQueue' # lifeQueue
  /\ lifeSent' = LifeSend(kind, chat)

\* C31: a maintenance notice is handed out for a user only when none has been
\* since the user's last resumed notice, and a resumed notice only when a
\* maintenance notice has been since the user's last resumed notice (or since
\* the installation), whatever the order of the events and across restarts.
C31_NoticesAlternate ==
  [][\A c \in Chats :
       /\ NoticeStep("maintenance", c) => maintRun[c] = 0
       /\ NoticeStep("resumed", c) => maintRun[c] = 1]_vars

\* u2 has been handed a maintenance notice, a resumed notice and now a second
\* maintenance notice, with a crash notice on the way
C31_Witness ==
  /\ lifeSent = LifeSend("maintenance", "u2")
  /\ maintRun["u2"] = 1
  /\ lifeOutcomes["u2"]["resumed"] # "none"
  /\ lifeOutcomes["u2"]["crash"] # "none"
  /\ Get(user_bot_states, "u2", "resumed") = "maintenance"

\* C32 as claimed: in a cycle during which a new user was registered, the
\* save of the user in turn is followed by the turn of the next user of the
\* cycle or, when none is left, by the end of the cycle, and never by the
\* handler of the loop.
C32_StartKeepsCycle ==
  [][(pc = "users" /\ SizeChanged)
       => /\ pc' \in {"products", "sleep"}
          /\ faults' = faults]_vars

\* the kinds of message that go out to a chat
OutboundKinds == NoticeKinds \cup {"reply"}

\* C33: while dev mode is on, a stock notification or error notice that is
\* handed to bot.send_message (awaited, delivered or failed) and a lifecycle
\* notice, crash notice or command reply that is handed to it are addressed to
\* the dev user.
C33_DevModeOnlyDevUser ==
  dev_mode =>
    /\ sent.delivery \in {"awaited", "delivered", "failed"} => sent.chat_id = dev_user_id
    /\ lifeSent.kind \in OutboundKinds => lifeSent.chat_id = dev_user_id

\* dev mode: the stock notification of the other user was skipped while the
\* dev user has been sent a lifecycle notice and is answered a command
C33_Witness ==
  /\ dev_mode
  /\ sent.kind # "none"
  /\ sent.chat_id = "u2"
  /\ sent.delivery = "dev_skip"
  /\ lifeOutcomes["u1"]["maintenance"] = "delivered"
  /\ lifeSent = [kind |-> "reply", chat_id |-> "u1"]

\* the list has no product twice
NoDuplicates(products) ==
  \A i, j \in 1..Len(products) : products[i] = products[j] => i = j

\* C34: after any sequence of /start, /add, /remove and /default, every user's
\* list has no product twice and holds only products of the catalog or the
\* default product; and /start from a chat that is registered leaves
\* self.users as it is.
C34_ListsWellFormed ==
  /\ [](\A i \in 1..Len(users) :
          /\ NoDuplicates(users[i].monitored_products)
          /\ Range(users[i].monitored_products) \subseteq AvailableProducts \cup Range(DefaultProducts))
  /\ [][\A chat \in Chats \cup {NewChat} :
          (UserIndex(chat) # 0 /\ Start(chat)) => users' = users]_vars

\* three chats have registered, the first has removed the default product and
\* added it again after another, and the last step was a command of the
\* second that was answered
C34_Witness ==
  /\ Len(users) = 3
  /\ users[1].monitored_products = <<"sayaka_40g", "ikuyo_100g">>
  /\ users[2].monitored_products = <<>>
  /\ users[3].monitored_products = DefaultProducts
  /\ lifeSent = [kind |-> "reply", chat_id |-> users[2].chat_id]

====
